---- MODULE Spec2Model ----
(***************************************************************************)
(* Model of the authentication layer of person-search: the session         *)
(* credential (callback issuance, the three validators, logout), the       *)
(* JSON-RPC tool endpoint with its request authenticator, and the OAuth    *)
(* 2.1 authorization and token endpoints with the redirect allow-list.     *)
(*                                                                         *)
(* Strings that the code takes apart are sequences of tokens: a redirect   *)
(* URI is <<"http://", "127.0.0.1", ":3000", "/api/auth/callback/google">>,*)
(* an Authorization header is <<"Bearer ", "tokA">>.  A JSON object is a   *)
(* function from its keys to its values, a key with value undefined being  *)
(* absent from the domain.                                                 *)
(***************************************************************************)
EXTENDS Integers, Sequences, FiniteSets, TLC

VARIABLES env, now, store, jar, issued, last, upstream, flights

vars == <<env, now, store, jar, issued, last, upstream, flights>>

(***************************************************************************)
(* Bounds of the model                                                     *)
(***************************************************************************)
\* the callback issues sessions at the instants 1..MaxStart
MaxStart == 1
\* the directory holds at most the records 1..MaxPersons
MaxPersons == 1
\* redirects that a client follows before it gives up
MaxHops == 2
\* token requests that are in progress at the same time
MaxFlights == 2

(***************************************************************************)
(* Program constants                                                       *)
(***************************************************************************)
\* 60 * 60 * 24, the lifetime of a session and the max-age of its cookie
SESSION_TTL == 86400
\* the JSON-RPC error code of an authentication failure
RPC_INTERNAL == -32603
RPC_PARSE == -32700
RPC_INVALID_PARAMS == -32602
RPC_NOT_FOUND == -32601

\* the instants at which the clock is observed: around issuance and around
\* expiry of every session the model issues
TimePoints == (1..(MaxStart + 1)) \cup ((SESSION_TTL - 1)..(SESSION_TTL + MaxStart + 2))

PersonIds == 1..MaxPersons

(***************************************************************************)
(* Records                                                                 *)
(***************************************************************************)
Override(base, rec) ==
  [k \in DOMAIN base |-> IF k \in DOMAIN rec THEN rec[k] ELSE base[k]]

\* value of a key of a JSON object; absent keys read as undefined
Has(obj, k) == k \in DOMAIN obj

(***************************************************************************)
(* Session credential: btoa(JSON.stringify(payload)) and back              *)
(***************************************************************************)
\* strings holding a character above U+00FF, which btoa refuses
WideStrings == {"Dvo\\u0159ak"}

\* a cookie as the handlers see it: absent, or a value that is base64 or not,
\* whose decoded text is a JSON object, another JSON value, or no JSON at all
NoCookie == [enc |-> "absent", json |-> "none", obj |-> <<>>]
Cookie(json, obj) == [enc |-> "b64", json |-> json, obj |-> obj]
RawCookie == [enc |-> "raw", json |-> "none", obj |-> <<>>]

\* JSON.stringify of an object: keys whose value is undefined are dropped,
\* which the function representation does by construction
JSONstringify(obj) == [json |-> "obj", obj |-> obj]

\* btoa throws on a character outside Latin-1
BtoaThrows(text) ==
  \E k \in (DOMAIN text.obj) \cap {"sub", "email", "name"} : text.obj[k] \in WideStrings

btoa(text) == Cookie(text.json, text.obj)

\* atob throws on a value that is not base64
AtobThrows(c) == c.enc # "b64"
atob(c) == [json |-> c.json, obj |-> c.obj]

\* JSON.parse throws on a text that is not JSON
ParseThrows(text) == text.json \notin {"obj", "null", "num"}

\* reading a property of the parsed value: null throws a TypeError, a number
\* has no own properties
PropThrows(text) == text.json = "null"
Parsed(text) == IF text.json = "obj" THEN text.obj ELSE <<>>

\* the try block `JSON.parse(atob(cookie.value))` followed by the first
\* property read: TRUE when control reaches the catch clause
DecodeFails(c) ==
  \/ AtobThrows(c)
  \/ ParseThrows(atob(c))
  \/ PropThrows(atob(c))

SessionData(c) == Parsed(atob(c))

\* variant: a session is expired from the instant of its expiry on
SessionExpired_atExpiry(sessionData, t) ==
  Has(sessionData, "exp") /\ sessionData.exp # 0 /\ sessionData.exp <= t

\* `sessionData.exp && sessionData.exp < now`, the same expression in the
\* JSON-RPC authenticator, the session-status endpoint and the middleware
SessionExpired(sessionData, t) ==
  Has(sessionData, "exp") /\ sessionData.exp # 0 /\ sessionData.exp < t

\* sub, email, name of a decoded session, as the validators report them
ClaimsOf(sessionData) ==
  [k \in (DOMAIN sessionData) \cap {"sub", "email", "name"} |-> sessionData[k]]

(***************************************************************************)
(* URIs and the environment                                                *)
(***************************************************************************)
CALLBACK_PATH == "/api/auth/callback/google"

\* String.prototype.toLowerCase, token by token
LowerTok(tok) ==
  CASE tok = "HTTP://" -> "http://"
    [] tok = "HTTPS://" -> "https://"
    [] tok = "LOCALHOST" -> "localhost"
    [] tok = "MyApp.example" -> "myapp.example"
    [] tok = "/API/AUTH/CALLBACK/GOOGLE" -> "/api/auth/callback/google"
    [] OTHER -> tok

toLowerCase(s) == [i \in 1..Len(s) |-> LowerTok(s[i])]

\* s.replace(/\/$/, ""): one trailing slash is removed
StripSlash(s) ==
  IF s = <<>> THEN s
  ELSE LET l == s[Len(s)]
           front == SubSeq(s, 1, Len(s) - 1)
       IN  CASE l = "/" -> front
             [] l = "http://" -> front \o <<"http:/">>
             [] l = "https://" -> front \o <<"https:/">>
             [] l = "HTTP://" -> front \o <<"HTTP:/">>
             [] l = "HTTPS://" -> front \o <<"HTTPS:/">>
             [] OTHER -> s

\* variant: the loopback address is left as it is
ReplaceLoopback_none(s) == s

\* s.replace("127.0.0.1", "localhost"): the first occurrence only
ReplaceLoopback(s) ==
  IF \E i \in 1..Len(s) : s[i] = "127.0.0.1"
  THEN LET i == CHOOSE j \in 1..Len(s) :
                  s[j] = "127.0.0.1" /\ \A k \in 1..(j - 1) : s[k] # "127.0.0.1"
       IN  [k \in 1..Len(s) |-> IF k = i THEN "localhost" ELSE s[k]]
  ELSE s

normalizeRedirectUri(uri) == toLowerCase(StripSlash(ReplaceLoopback(uri)))

\* process.env; an unset variable and the empty string are both falsy and
\* are both <<>> (URLs) or "" (names)
EnvBase ==
  [GOOGLE_CLIENT_ID |-> "", GOOGLE_CLIENT_SECRET |-> "",
   PRODUCTION_URL |-> <<>>, NEXTAUTH_URL |-> <<>>, VERCEL_URL |-> <<>>,
   VERCEL_ENV |-> "", VERCEL_PROJECT_PRODUCTION_URL |-> <<>>,
   NODE_ENV |-> "", PORT |-> "", HOST |-> ""]

Envs ==
  { Override(EnvBase, [GOOGLE_CLIENT_ID |-> "cid", GOOGLE_CLIENT_SECRET |-> "sec",
                       NODE_ENV |-> "development"]),
    Override(EnvBase, [GOOGLE_CLIENT_ID |-> "cid", GOOGLE_CLIENT_SECRET |-> "sec",
                       NODE_ENV |-> "production",
                       NEXTAUTH_URL |-> <<"https://", "MyApp.example", "/">>]),
    Override(EnvBase, [NODE_ENV |-> "production",
                       VERCEL_URL |-> <<"app.vercel.example">>]) }

DEFAULT_LOCAL_PORT == "3000"
DEFAULT_LOCAL_HOST == "localhost"

getBaseUrl(e) ==
  IF e.PRODUCTION_URL # <<>> THEN StripSlash(e.PRODUCTION_URL)
  ELSE IF e.NEXTAUTH_URL # <<>> THEN StripSlash(e.NEXTAUTH_URL)
  ELSE IF e.VERCEL_URL # <<>>
    THEN IF e.VERCEL_ENV = "production" /\ e.VERCEL_PROJECT_PRODUCTION_URL # <<>>
         THEN <<"https://">> \o e.VERCEL_PROJECT_PRODUCTION_URL
         ELSE <<"https://">> \o e.VERCEL_URL
  ELSE IF e.NODE_ENV = "development"
    THEN <<"http://",
           IF e.HOST # "" THEN e.HOST ELSE DEFAULT_LOCAL_HOST,
           ":" \o (IF e.PORT # "" THEN e.PORT ELSE DEFAULT_LOCAL_PORT)>>
  ELSE <<"http://", DEFAULT_LOCAL_HOST, ":" \o DEFAULT_LOCAL_PORT>>

getRedirectUris(e) == [google |-> getBaseUrl(e) \o <<CALLBACK_PATH>>]

\* the allow-list of isAllowedRedirectUri, before normalization
allowedRedirects(e) ==
  { getRedirectUris(e).google,
    <<"http://", "localhost", ":3000", CALLBACK_PATH>>,
    <<"http://", "127.0.0.1", ":3000", CALLBACK_PATH>>,
    <<"https://", "person-search-pearl.vercel.app", CALLBACK_PATH>> }
  \cup (IF e.NEXTAUTH_URL # <<>>
        THEN {StripSlash(e.NEXTAUTH_URL \o <<CALLBACK_PATH>>)} ELSE {})
  \cup (IF e.PRODUCTION_URL # <<>>
        THEN {StripSlash(e.PRODUCTION_URL \o <<CALLBACK_PATH>>)} ELSE {})
  \cup (IF e.VERCEL_URL # <<>>
        THEN {<<"https://">> \o e.VERCEL_URL \o <<CALLBACK_PATH>>} ELSE {})

\* variant: only scheme, host and port are compared
isAllowedRedirectUri_originOnly(e, uri) ==
  LET normalizedUri == StripSlash(ReplaceLoopback(uri))
      normalizedAllowed == {StripSlash(ReplaceLoopback(url)) : url \in allowedRedirects(e)}
  IN  \E a \in normalizedAllowed :
        /\ Len(normalizedUri) >= 3 /\ Len(a) >= 3
        /\ SubSeq(normalizedUri, 1, 3) = SubSeq(a, 1, 3)

isAllowedRedirectUri(e, uri) ==
  LET normalizedUri == StripSlash(ReplaceLoopback(uri))
      normalizedAllowed == {StripSlash(ReplaceLoopback(url)) : url \in allowedRedirects(e)}
  IN  normalizedUri \in normalizedAllowed

\* new URL(s) accepts an absolute URL only
Schemes == {"http://", "https://", "HTTP://", "HTTPS://"}
UrlParses(s) == Len(s) >= 2 /\ s[1] \in Schemes

(***************************************************************************)
(* Requests and responses                                                  *)
(***************************************************************************)
NoLocation == [origin |-> "none", path |-> <<>>, params |-> <<>>]
Location(origin, path, params) == [origin |-> origin, path |-> path, params |-> params]

\* a response: NextResponse.json, NextResponse.redirect, new NextResponse
\* or NextResponse.next, with the headers and cookie operations set on it
BlankResponse ==
  [kind |-> "none", status |-> 0,
   error |-> "", code |-> 0, message |-> "", result |-> "",
   authenticated |-> FALSE, user |-> <<>>,
   location |-> NoLocation,
   wwwAuthenticate |-> FALSE,
   cookieOp |-> "none", cookie |-> NoCookie, maxAge |-> 0,
   httpOnly |-> FALSE, sameSite |-> ""]

Json(status, fields) == Override(BlankResponse, [kind |-> "json", status |-> status] @@ fields)
Redirect(loc, fields) ==
  Override(BlankResponse, [kind |-> "redirect", status |-> 307, location |-> loc] @@ fields)

\* response.cookies.delete('oauth_session') on a response
DeleteCookie(resp) == [resp EXCEPT !.cookieOp = "delete"]

\* the cookie a request carries: the browser's own (src = "jar"), a copy of
\* the last issued credential kept outside the browser (src = "copy"), or a
\* value made up by the sender
ForgedCookies ==
  { RawCookie,
    Cookie("bad", <<>>),
    Cookie("null", <<>>),
    Cookie("num", <<>>),
    Cookie("obj", [sub |-> "u9", email |-> "eve@x", name |-> "Eve"]),
    Cookie("obj", [sub |-> "u9", email |-> "eve@x", name |-> "Eve", exp |-> 0]),
    Cookie("obj", [sub |-> "u9", email |-> "eve@x", name |-> "Eve", exp |-> SESSION_TTL]) }

CookieSources ==
  {[from |-> f, value |-> NoCookie] : f \in {"none", "jar", "copy"}}
  \cup {[from |-> "forged", value |-> c] : c \in ForgedCookies}

\* the browser drops a cookie when its max-age has run out
JarCookie == IF jar.cookie.enc # "absent" /\ now < jar.until THEN jar.cookie ELSE NoCookie

CookieFrom(src) ==
  CASE src.from = "none" -> NoCookie
    [] src.from = "jar" -> JarCookie
    [] src.from = "copy" -> issued.cookie
    [] OTHER -> src.value

\* a browser obeys the Set-Cookie headers of the responses it receives
EmptyJar == [cookie |-> NoCookie, until |-> 0]
JarAfter(src, resp, t) ==
  IF src.from # "jar" THEN jar
  ELSE CASE resp.cookieOp = "set" -> [cookie |-> resp.cookie, until |-> t + resp.maxAge]
         [] resp.cookieOp = "delete" -> EmptyJar
         [] OTHER -> jar

\* the last credential the callback issued: the cookie, the claims it was
\* issued for and the instant its expiry was stamped
NoSession == [cookie |-> NoCookie, claims |-> <<>>, at |-> 0]

\* a request that was handled at the instant `at`, its response on the way
\* to the sender
Handled(ep, req, resp, trace, at) ==
  [ep |-> ep, req |-> req, resp |-> resp, trace |-> trace, at |-> at]
NoRequest == Handled("none", <<>>, BlankResponse, {}, 0)
Idle == last = NoRequest

\* the sender receives the response; its browser applies the cookie
\* operations of the response to the jar
Receive ==
  /\ ~Idle
  /\ jar' = JarAfter(last.req.src, last.resp, last.at)
  /\ last' = NoRequest
  /\ UNCHANGED <<upstream, flights, env, now, store, issued>>

(***************************************************************************)
(* The clock                                                               *)
(***************************************************************************)
Tick ==
  /\ Idle
  /\ \E t \in TimePoints : t > now /\ now' = t
  /\ UNCHANGED <<upstream, flights, env, store, jar, issued, last>>

(***************************************************************************)
(* GET /api/auth/session                                                   *)
(***************************************************************************)
SessionStatusResponse(c, t) ==
  IF c.enc = "absent"
  THEN Json(200, [authenticated |-> FALSE, message |-> "No session found"])
  ELSE IF DecodeFails(c)
  THEN DeleteCookie(Json(200, [authenticated |-> FALSE, message |-> "Invalid session format"]))
  ELSE IF SessionExpired(SessionData(c), t)
  THEN Json(200, [authenticated |-> FALSE, message |-> "Session expired"])
  ELSE Json(200, [authenticated |-> TRUE, message |-> "Session valid",
                  user |-> [k \in (DOMAIN SessionData(c)) \cap {"sub", "email", "name", "exp"}
                              |-> SessionData(c)[k]]])

SessionStatus ==
  /\ Idle
  /\ \E src \in CookieSources :
    LET c == CookieFrom(src)
        resp == SessionStatusResponse(c, now)
    IN  /\ last' = Handled("session.GET", [src |-> src, cookie |-> c], resp, {}, now)
        /\ UNCHANGED <<upstream, flights, env, now, store, jar, issued>>

(***************************************************************************)
(* GET /api/auth/callback/google                                           *)
(***************************************************************************)
\* what the identity provider can answer to tokeninfo / userinfo
UserInfos ==
  { [sub |-> "u1", email |-> "ann@x", name |-> "Ann"],
    [sub |-> "u2", name |-> "Bob"],
    [email |-> "cy@x", name |-> "Cy"],
    [sub |-> "u4", email |-> "d@x", name |-> "Dvo\\u0159ak"] }

\* the state parameter: absent, not decodable, or base64 JSON with a returnUrl
NoState == [present |-> FALSE, decodes |-> FALSE, returnUrl |-> ""]
StateParams ==
  { NoState,
    [present |-> TRUE, decodes |-> FALSE, returnUrl |-> ""],
    [present |-> TRUE, decodes |-> TRUE, returnUrl |-> ""],
    [present |-> TRUE, decodes |-> TRUE, returnUrl |-> "/auth/login"],
    [present |-> TRUE, decodes |-> TRUE, returnUrl |-> "/about"],
    [present |-> TRUE, decodes |-> TRUE, returnUrl |-> "https://evil.example/x"] }

\* new URL(path, request.url): an absolute URL keeps its own origin
OriginOf(path) == IF path = "https://evil.example/x" THEN "evil.example" ELSE "self"

\* variant: the error page is sent with a session cookie
ErrorPage_withCookie(error, description) ==
  Redirect(Location("self", <<"/auth/error">>, [error |-> error, description |-> description]),
           [error |-> error, cookieOp |-> "set", maxAge |-> SESSION_TTL,
            httpOnly |-> TRUE, sameSite |-> "lax"])

ErrorPage(error, description) ==
  Redirect(Location("self", <<"/auth/error">>, [error |-> error, description |-> description]),
           [error |-> error])

\* the answers of the provider to one callback: the code exchange, then the
\* identity call
NoTokens == [id_token |-> "", access_token |-> ""]
Exchanges ==
  { [success |-> FALSE, tokens |-> NoTokens],
    [success |-> TRUE, tokens |-> NoTokens],
    [success |-> TRUE, tokens |-> [id_token |-> "idt", access_token |-> "at"]],
    [success |-> TRUE, tokens |-> [id_token |-> "", access_token |-> "at"]] }
Identities == {[ok |-> FALSE, userInfo |-> <<>>]} \cup {[ok |-> TRUE, userInfo |-> u] : u \in UserInfos}

CallbackRedirectPath(state) ==
  IF state.present /\ state.decodes /\ state.returnUrl # "" /\ state.returnUrl # "/auth/login"
  THEN state.returnUrl ELSE "/auth/success"

\* lines 170-176: the payload of the session, iat and exp read from the clock
\* at the instants t1 <= t2
SessionPayload(userInfo, t1, t2) ==
  [k \in (DOMAIN userInfo) \cap {"sub", "email", "name"} |-> userInfo[k]]
    @@ [iat |-> t1, exp |-> t2 + SESSION_TTL]

\* the response of the callback and the calls it made to the provider
CallbackResult(e, q, x, idn, t1, t2) ==
  IF q.error # ""
  THEN [resp |-> ErrorPage(q.error, q.error_description), trace |-> {}]
  ELSE IF q.code = ""
  THEN [resp |-> ErrorPage("invalid_request", "Missing authorization code"), trace |-> {}]
  ELSE IF e.GOOGLE_CLIENT_ID = "" \/ e.GOOGLE_CLIENT_SECRET = ""
  THEN [resp |-> ErrorPage("server_error", "OAuth not configured"), trace |-> {}]
  ELSE IF ~x.success
  THEN [resp |-> ErrorPage("invalid_grant", "Token exchange failed"), trace |-> {"exchange"}]
  ELSE IF x.tokens.id_token = "" /\ x.tokens.access_token = ""
  THEN [resp |-> ErrorPage("invalid_token", "Token verification failed"), trace |-> {"exchange"}]
  ELSE LET call == IF x.tokens.id_token # "" THEN "tokeninfo" ELSE "userinfo"
           path == CallbackRedirectPath(q.state)
           payload == SessionPayload(idn.userInfo, t1, t2)
       IN  IF ~idn.ok \/ ~Has(idn.userInfo, "sub")
           THEN [resp |-> ErrorPage("invalid_token", "Token verification failed"),
                 trace |-> {"exchange", call}]
           ELSE IF BtoaThrows(JSONstringify(payload))
           THEN [resp |-> ErrorPage("server_error", "Callback processing failed"),
                 trace |-> {"exchange", call}]
           ELSE [resp |-> Redirect(Location(OriginOf(path), <<path>>,
                                     IF path = "/auth/success"
                                     THEN [user |-> idn.userInfo.sub, state |-> q.state.present]
                                     ELSE <<>>),
                                   [cookieOp |-> "set",
                                    cookie |-> btoa(JSONstringify(payload)),
                                    maxAge |-> SESSION_TTL,
                                    httpOnly |-> TRUE, sameSite |-> "lax"]),
                 trace |-> {"exchange", call}]

CallbackRequests ==
  [code : {"", "c1"}, state : StateParams, error : {"", "access_denied"},
   error_description : {""}]

Callback ==
  /\ Idle
  /\ \E q \in CallbackRequests, x \in Exchanges, idn \in Identities, t2 \in {now, now + 1},
     src \in {[from |-> "jar", value |-> NoCookie]} :
    LET r == CallbackResult(env, q, x, idn, now, t2)
        reads == /\ q.error = "" /\ q.code # ""
                 /\ env.GOOGLE_CLIENT_ID # "" /\ env.GOOGLE_CLIENT_SECRET # ""
        verifies == reads /\ x.success /\ (x.tokens.id_token # "" \/ x.tokens.access_token # "")
        issues == r.resp.cookieOp = "set"
    IN  \* answers of the provider that are never asked for are left out
        /\ ~reads => x = [success |-> FALSE, tokens |-> NoTokens]
        /\ ~verifies => idn = [ok |-> FALSE, userInfo |-> <<>>]
        /\ ~issues => t2 = now /\ q.state = NoState
        /\ issues => now <= MaxStart
        /\ t2 \in TimePoints
        /\ now' = t2
        /\ last' = Handled("callback.GET",
                            [query |-> q, src |-> src, answers |-> [x |-> x, idn |-> idn]],
                            r.resp, r.trace, t2)
        /\ issued' = IF issues
                     THEN [cookie |-> r.resp.cookie, claims |-> ClaimsOf(idn.userInfo),
                           at |-> t2]
                     ELSE issued
        /\ UNCHANGED <<upstream, flights, env, store, jar>>

(***************************************************************************)
(* The directory and the tools of the JSON-RPC endpoint                    *)
(***************************************************************************)
\* a record of the directory: 0 absent, 1 as created, 2 updated since
ABSENT == 0
CREATED == 1
UPDATED == 2

\* variant: the name of the tool is not checked against the list
validTools_unchecked ==
  {"search_users", "add_user", "update_user", "delete_user", "get_user_by_id", "drop_table"}

validTools == {"search_users", "add_user", "update_user", "delete_user", "get_user_by_id"}

\* a params.name that is not a string (a JSON number)
NotAString == "<42>"

\* params of a tools/call: none, or a name (possibly "" for a missing one) and
\* arguments, which fit the schema of the tool or do not; id names the record
NoParams == [present |-> FALSE, name |-> "", valid |-> FALSE, id |-> 0]
ToolParams ==
  { NoParams,
    [present |-> TRUE, name |-> "", valid |-> FALSE, id |-> 0],
    [present |-> TRUE, name |-> NotAString, valid |-> FALSE, id |-> 0],
    [present |-> TRUE, name |-> "drop_table", valid |-> FALSE, id |-> 0] }
  \cup {[present |-> TRUE, name |-> n, valid |-> FALSE, id |-> 0] : n \in {"add_user"}}
  \cup {[present |-> TRUE, name |-> n, valid |-> TRUE, id |-> i] :
          n \in {"update_user", "delete_user", "get_user_by_id"}, i \in PersonIds}
  \cup {[present |-> TRUE, name |-> n, valid |-> TRUE, id |-> 0] :
          n \in {"search_users", "add_user"}}

\* handleMCPTool: the text it returns (success or not) and the directory
\* afterwards; every exception is caught and reported in the text
handleMCPTool(p, st) ==
  IF ~p.valid THEN [success |-> FALSE, store |-> st]
  ELSE CASE p.name = "search_users" -> [success |-> TRUE, store |-> st]
         [] p.name = "add_user" ->
              IF \E i \in PersonIds : st[i] = ABSENT
              THEN LET i == CHOOSE j \in PersonIds :
                              st[j] = ABSENT /\ \A k \in PersonIds : st[k] = ABSENT => j <= k
                   IN  [success |-> TRUE, store |-> [st EXCEPT ![i] = CREATED]]
              ELSE [success |-> FALSE, store |-> st]
         [] p.name = "update_user" ->
              IF st[p.id] # ABSENT
              THEN [success |-> TRUE, store |-> [st EXCEPT ![p.id] = UPDATED]]
              ELSE [success |-> FALSE, store |-> st]
         [] p.name = "delete_user" ->
              IF st[p.id] # ABSENT
              THEN [success |-> TRUE, store |-> [st EXCEPT ![p.id] = ABSENT]]
              ELSE [success |-> FALSE, store |-> st]
         [] p.name = "get_user_by_id" -> [success |-> st[p.id] # ABSENT, store |-> st]
         [] OTHER -> [success |-> FALSE, store |-> st]

(***************************************************************************)
(* POST /api/mcp                                                           *)
(***************************************************************************)
\* the Authorization header: absent (null), or a string of tokens
NoHeader == [present |-> FALSE, value |-> <<>>]
Header(v) == [present |-> TRUE, value |-> v]
AuthHeaders ==
  { NoHeader, Header(<<>>), Header(<<"Bearer ">>), Header(<<"Bearer ", "tokA">>),
    Header(<<"tokA">>) }

\* a JavaScript string is truthy when it is not empty
Truthy(h) == h.present /\ h.value # <<>>

startsWithBearer(v) == Len(v) >= 1 /\ v[1] = "Bearer "

\* variant: the scheme is never stripped
BearerToken_keepScheme(v) == v

\* authHeader.startsWith('Bearer ') ? authHeader.slice(7) : authHeader
BearerToken(v) == IF startsWithBearer(v) THEN Tail(v) ELSE v

\* what verifyGoogleToken answers for a token: the user, nothing, or it throws
NoVerify == [result |-> "none", sub |-> ""]
Verifications ==
  { [result |-> "user", sub |-> "u1"], [result |-> "null", sub |-> ""],
    [result |-> "throws", sub |-> ""] }

Unauthorized(message, challenge) ==
  Json(401, [code |-> RPC_INTERNAL, message |-> message, wwwAuthenticate |-> challenge])

BearerUser(v) == [token |-> "bearer", clientId |-> v.sub, claims |-> <<>>]
SessionUser(sessionData) ==
  [token |-> "session-based",
   clientId |-> IF Has(sessionData, "sub") THEN sessionData.sub ELSE "",
   claims |-> ClaimsOf(sessionData)]
NoUser == [token |-> "", clientId |-> "", claims |-> <<>>]

AuthResult(ok, user, resp, trace) ==
  [authenticated |-> ok, user |-> user, errorResponse |-> resp, trace |-> trace]

\* the session-cookie half of authenticateMCPRequest, lines 80-171
\* variant: the JSON-RPC authenticator alone rejects a session at the
\* instant of its expiry
authenticateBySession_atExpiry(c, t, trace) ==
  IF c.enc # "absent"
  THEN IF DecodeFails(c)
       THEN AuthResult(FALSE, NoUser, Unauthorized("Unauthorized - Invalid session", FALSE),
                       trace \cup {"cookie"})
       ELSE IF SessionExpired_atExpiry(SessionData(c), t)
       THEN AuthResult(FALSE, NoUser, Unauthorized("Unauthorized - Session expired", FALSE),
                       trace \cup {"cookie"})
       ELSE AuthResult(TRUE, SessionUser(SessionData(c)), BlankResponse, trace \cup {"cookie"})
  ELSE AuthResult(FALSE, NoUser,
                  Unauthorized("Unauthorized - Missing authorization header or session cookie", TRUE),
                  trace \cup {"cookie"})

authenticateBySession(c, t, trace) ==
  IF c.enc # "absent"
  THEN IF DecodeFails(c)
       THEN AuthResult(FALSE, NoUser, Unauthorized("Unauthorized - Invalid session", FALSE),
                       trace \cup {"cookie"})
       ELSE IF SessionExpired(SessionData(c), t)
       THEN AuthResult(FALSE, NoUser, Unauthorized("Unauthorized - Session expired", FALSE),
                       trace \cup {"cookie"})
       ELSE AuthResult(TRUE, SessionUser(SessionData(c)), BlankResponse, trace \cup {"cookie"})
  ELSE AuthResult(FALSE, NoUser,
                  Unauthorized("Unauthorized - Missing authorization header or session cookie", TRUE),
                  trace \cup {"cookie"})

\* variant: a rejected bearer token ends the authentication
authenticateMCPRequest_bearerOnly(h, v, c, t) ==
  IF Truthy(h)
  THEN IF BearerToken(h.value) = <<>>
       THEN AuthResult(FALSE, NoUser, Unauthorized("Unauthorized - Invalid token format", TRUE),
                       {"authenticate"})
       ELSE IF v.result = "user"
       THEN AuthResult(TRUE, BearerUser(v), BlankResponse, {"authenticate", "verifyGoogleToken"})
       ELSE AuthResult(FALSE, NoUser,
                       Unauthorized("Unauthorized - Missing authorization header or session cookie",
                                    TRUE),
                       {"authenticate", "verifyGoogleToken"})
  ELSE authenticateBySession(c, t, {"authenticate"})

\* authenticateMCPRequest: the bearer header first, then the session cookie
authenticateMCPRequest(h, v, c, t) ==
  IF Truthy(h)
  THEN IF BearerToken(h.value) = <<>>
       THEN AuthResult(FALSE, NoUser, Unauthorized("Unauthorized - Invalid token format", TRUE),
                       {"authenticate"})
       ELSE IF v.result = "user"
       THEN AuthResult(TRUE, BearerUser(v), BlankResponse, {"authenticate", "verifyGoogleToken"})
       ELSE authenticateBySession(c, t, {"authenticate", "verifyGoogleToken"})
  ELSE authenticateBySession(c, t, {"authenticate"})

\* variant: tools/list is not public
publicMethods_initializeOnly == {"initialize"}

publicMethods == {"initialize", "tools/list"}

\* variant: only the methods the switch knows are protected
requiresAuthentication_knownOnly(method) ==
  method \in {"tools/call", "notifications/initialized"}

requiresAuthentication(method) == method \notin publicMethods

RpcError(code, message) == Json(200, [code |-> code, message |-> message])
RpcResult(result) == Json(200, [result |-> result])

\* the switch over body.method, lines 227-367
Dispatch(body, st, trace) ==
  CASE body.method = "initialize" ->
         [resp |-> RpcResult("serverInfo"), store |-> st, trace |-> trace]
    [] body.method = "tools/list" ->
         [resp |-> RpcResult("tools"), store |-> st, trace |-> trace]
    [] body.method = "tools/call" ->
         IF ~body.params.present
         THEN [resp |-> RpcError(RPC_INVALID_PARAMS, "Missing parameters"),
               store |-> st, trace |-> trace]
         ELSE IF body.params.name = "" \/ body.params.name = NotAString
         THEN [resp |-> RpcError(RPC_INVALID_PARAMS, "Invalid tool name"),
               store |-> st, trace |-> trace]
         ELSE IF body.params.name \notin validTools
         THEN [resp |-> RpcError(RPC_NOT_FOUND, "Tool not found"),
               store |-> st, trace |-> trace]
         ELSE LET r == handleMCPTool(body.params, st)
              IN  [resp |-> RpcResult(IF r.success THEN "success:true" ELSE "success:false"),
                   store |-> r.store, trace |-> trace \cup {"handleMCPTool"}]
    [] body.method = "notifications/initialized" ->
         [resp |-> Override(BlankResponse, [kind |-> "empty", status |-> 204]),
          store |-> st, trace |-> trace]
    [] OTHER ->
         [resp |-> RpcError(RPC_NOT_FOUND, "Method not found"), store |-> st, trace |-> trace]

Methods == {"initialize", "tools/list", "tools/call", "notifications/initialized",
            "resources/list"}

\* the body of the POST: text that request.json() rejects, the JSON value
\* null, or an object with a method and possibly params
Bodies ==
  {[json |-> j, method |-> "", params |-> NoParams] : j \in {"bad", "null"}}
  \cup {[json |-> "obj", method |-> m, params |-> NoParams] : m \in Methods}
  \cup {[json |-> "obj", method |-> "tools/call", params |-> p] : p \in ToolParams}

McpPostResult(body, h, v, c, t, st) ==
  IF body.json # "obj"
  THEN [resp |-> Json(400, [code |-> RPC_PARSE, message |-> "Parse error"]),
        store |-> st, trace |-> {}, user |-> NoUser]
  ELSE IF requiresAuthentication(body.method)
  THEN LET a == authenticateMCPRequest(h, v, c, t)
       IN  IF ~a.authenticated
           THEN [resp |-> a.errorResponse, store |-> st, trace |-> a.trace, user |-> NoUser]
           ELSE Dispatch(body, st, a.trace) @@ [user |-> a.user]
  ELSE Dispatch(body, st, {}) @@ [user |-> NoUser]

McpPost ==
  /\ Idle
  /\ \E body \in Bodies, h \in AuthHeaders, v \in Verifications \cup {NoVerify},
     src \in CookieSources :
    LET c == CookieFrom(src)
        r == McpPostResult(body, h, v, c, now, store)
    IN  \* the provider answers only when it is asked; params are read only
        \* once the request is let through
        /\ (v # NoVerify) <=> ("verifyGoogleToken" \in r.trace)
        /\ (r.resp.status \in {400, 401}) => body.params = NoParams
        /\ last' = Handled("mcp.POST",
                           [body |-> body, authorization |-> h, verify |-> v,
                            src |-> src, cookie |-> c, store |-> store, user |-> r.user],
                           r.resp, r.trace, now)
        /\ store' = r.store
        /\ UNCHANGED <<upstream, flights, env, now, jar, issued>>

\* GET /api/mcp: the server description; the handler takes no request
McpGetResponse == Json(200, [result |-> "metadata"])

McpGet ==
  /\ Idle
  /\ \E h \in AuthHeaders, src \in CookieSources :
       last' = Handled("mcp.GET",
                       [authorization |-> h, src |-> src, cookie |-> CookieFrom(src),
                        store |-> store],
                       McpGetResponse, {}, now)
  /\ UNCHANGED <<upstream, flights, env, now, store, jar, issued>>

(***************************************************************************)
(* POST and GET /api/auth/logout                                           *)
(***************************************************************************)
LogoutPostResponse ==
  DeleteCookie(Json(200, [result |-> "success:true", message |-> "Logged out successfully"]))

LogoutPost ==
  /\ Idle
  /\ \E src \in {[from |-> f, value |-> NoCookie] : f \in {"none", "jar"}} :
       last' = Handled("logout.POST", [src |-> src, cookie |-> CookieFrom(src)],
                       LogoutPostResponse, {}, now)
  /\ UNCHANGED <<upstream, flights, env, now, store, jar, issued>>

\* the redirect parameter of GET: absent, a path, an absolute URL, or a
\* string for which new URL(redirectUrl, request.url) throws
LogoutRedirects == {"", "/about", "https://evil.example/x", "http://"}
UrlThrows(target) == target = "http://"

\* GET: the response that is returned on the normal path is the second
\* redirect, built after the cookie was deleted on the first one
LogoutGetResponse(redirect) ==
  LET redirectUrl == IF redirect # "" THEN redirect ELSE "/auth/login"
  IN  IF UrlThrows(redirectUrl)
      THEN DeleteCookie(Redirect(Location("self", <<"/auth/login">>, <<>>), <<>>))
      ELSE Redirect(Location(OriginOf(redirectUrl), <<redirectUrl>>, [logout |-> "success"]),
                    <<>>)

LogoutGet ==
  /\ Idle
  /\ \E src \in {[from |-> f, value |-> NoCookie] : f \in {"none", "jar"}},
        redirect \in LogoutRedirects :
       last' = Handled("logout.GET",
                       [src |-> src, cookie |-> CookieFrom(src), redirect |-> redirect],
                       LogoutGetResponse(redirect), {}, now)
  /\ UNCHANGED <<upstream, flights, env, now, store, jar, issued>>

(***************************************************************************)
(* The page middleware                                                     *)
(***************************************************************************)
protectedRoutes == {"/", "/about", "/mcp"}
publicRoutes == {"/auth/login", "/auth/success", "/auth/error", "/api/auth", "/api/mcp",
                 "/.well-known", "/favicon.ico", "/_next"}

\* a pathname is a sequence of tokens; its first token decides startsWith
Pathnames ==
  { <<"/">>, <<"/about">>, <<"/about", "/team">>, <<"/mcp">>, <<"/auth/login">>,
    <<"/api/mcp">>, <<"/api/people">>, <<"/directory">> }

\* pathname.startsWith(route); every pathname starts with "/"
startsWithRoute(pathname, route) == route = "/" \/ pathname[1] = route

isProtectedRoute(pathname) ==
  \E route \in protectedRoutes :
    IF route = "/" THEN pathname = <<"/">> ELSE startsWithRoute(pathname, route)

Next200 == Override(BlankResponse, [kind |-> "next", status |-> 200])

LoginRedirect(pathname, expired) ==
  Redirect(Location("self", <<"/auth/login">>,
                    [returnUrl |-> pathname, expired |-> expired]), <<>>)

middleware(pathname, c, t) ==
  IF \E route \in publicRoutes : startsWithRoute(pathname, route)
  THEN Next200
  ELSE IF isProtectedRoute(pathname)
  THEN IF c.enc = "absent"
       THEN LoginRedirect(pathname, FALSE)
       ELSE IF DecodeFails(c)
       THEN DeleteCookie(LoginRedirect(pathname, FALSE))
       ELSE IF SessionExpired(SessionData(c), t)
       THEN DeleteCookie(LoginRedirect(pathname, TRUE))
       ELSE Next200
  ELSE Next200

Middleware ==
  /\ Idle
  /\ \E pathname \in Pathnames, src \in CookieSources :
       LET c == CookieFrom(src)
       IN  last' = Handled("middleware", [src |-> src, cookie |-> c, pathname |-> pathname],
                           middleware(pathname, c, now), {}, now)
  /\ UNCHANGED <<upstream, flights, env, now, store, jar, issued>>

(***************************************************************************)
(* GET /api/people                                                         *)
(***************************************************************************)
\* the handler: searchUsers reads the directory, an exception of the data
\* store is answered 500
PeopleGetResponse(dbThrows) ==
  IF dbThrows
  THEN Json(500, [error |-> "Internal server error"])
  ELSE Json(200, [result |-> "users"])

\* the request passes the middleware, whose matcher covers /api/people,
\* and then the handler
PeopleGet ==
  /\ Idle
  /\ \E src \in CookieSources, dbThrows \in BOOLEAN :
       LET c == CookieFrom(src)
           m == middleware(<<"/api/people">>, c, now)
       IN  last' = Handled("people.GET",
                           [src |-> src, cookie |-> c, store |-> store, dbThrows |-> dbThrows],
                           IF m.kind = "next" THEN PeopleGetResponse(dbThrows) ELSE m,
                           IF m.kind = "next" THEN {"middleware", "searchUsers"}
                           ELSE {"middleware"},
                           now)
  /\ UNCHANGED <<upstream, flights, env, now, store, jar, issued>>

(***************************************************************************)
(* The OAuth 2.1 authorization and token endpoints                         *)
(***************************************************************************)
\* redirect URIs that requests carry; <<>> is the empty (missing) one
RedirectUris ==
  { <<>>,
    <<"http://", "localhost", ":3000", CALLBACK_PATH>>,
    <<"http://", "127.0.0.1", ":3000", CALLBACK_PATH>>,
    <<"http://", "localhost", ":3000", CALLBACK_PATH, "/">>,
    <<"http://", "localhost", ":3000", CALLBACK_PATH, "/", "/">>,
    <<"HTTP://", "LOCALHOST", ":3000", "/API/AUTH/CALLBACK/GOOGLE">>,
    <<"https://", "MyApp.example", CALLBACK_PATH>>,
    <<"https://", "evil.example", "/cb">>,
    <<"not a url">> }

OAuthError(error, description) ==
  Json(400, [error |-> error, message |-> description])

\* variant: the state of the request is not passed on
createOAuth21ErrorRedirect_dropState(redirectUri, error, errorDescription, state) ==
  IF redirectUri = <<>>
  THEN OAuthError(error, errorDescription)
  ELSE IF UrlParses(redirectUri)
  THEN Redirect(Location("caller", redirectUri,
                         [error |-> error, error_description |-> errorDescription]),
                [error |-> error])
  ELSE OAuthError("invalid_request", "Invalid redirect_uri")

\* the state is set on the redirect only when it is a non-empty string
createOAuth21ErrorRedirect(redirectUri, error, errorDescription, state) ==
  IF redirectUri = <<>>
  THEN OAuthError(error, errorDescription)
  ELSE IF UrlParses(redirectUri)
  THEN Redirect(Location("caller", redirectUri,
                         [error |-> error, error_description |-> errorDescription]
                         @@ (IF state # "" THEN [state |-> state] ELSE <<>>)),
                [error |-> error])
  ELSE OAuthError("invalid_request", "Invalid redirect_uri")

NoFailure == [isValid |-> TRUE, error |-> "", errorDescription |-> ""]
Failure(error, description) ==
  [isValid |-> FALSE, error |-> error, errorDescription |-> description]

\* variant: client_id is checked before response_type
validateAuthParams_clientFirst(params) ==
  IF params.client_id = ""
  THEN Failure("invalid_request", "Missing client_id")
  ELSE IF params.response_type # "code"
  THEN Failure("unsupported_response_type", "Only 'code' response type is supported")
  ELSE IF params.redirect_uri = <<>>
  THEN Failure("invalid_request", "Missing redirect_uri")
  ELSE IF params.code_challenge # "" /\ params.code_challenge_method # "S256"
  THEN Failure("invalid_request", "Only S256 code challenge method is supported")
  ELSE NoFailure

validateAuthParams(params) ==
  IF params.response_type # "code"
  THEN Failure("unsupported_response_type", "Only 'code' response type is supported")
  ELSE IF params.client_id = ""
  THEN Failure("invalid_request", "Missing client_id")
  ELSE IF params.redirect_uri = <<>>
  THEN Failure("invalid_request", "Missing redirect_uri")
  ELSE IF params.code_challenge # "" /\ params.code_challenge_method # "S256"
  THEN Failure("invalid_request", "Only S256 code challenge method is supported")
  ELSE NoFailure

\* variant: the code is checked before the grant type
validateTokenParams_codeFirst(params) ==
  IF params.code = ""
  THEN Failure("invalid_request", "Missing authorization code")
  ELSE IF params.grant_type # "authorization_code"
  THEN Failure("unsupported_grant_type", "Only authorization_code grant type is supported")
  ELSE IF params.redirect_uri = <<>>
  THEN Failure("invalid_request", "Missing redirect_uri")
  ELSE NoFailure

validateTokenParams(params) ==
  IF params.grant_type # "authorization_code"
  THEN Failure("unsupported_grant_type", "Only authorization_code grant type is supported")
  ELSE IF params.code = ""
  THEN Failure("invalid_request", "Missing authorization code")
  ELSE IF params.redirect_uri = <<>>
  THEN Failure("invalid_request", "Missing redirect_uri")
  ELSE NoFailure

DEFAULT_SCOPE == "openid profile email"

\* variant: the PKCE parameters are not passed on
getGoogleAuthUrl_noPkce(e, clientId, scope, state, codeChallenge, codeChallengeMethod) ==
  Location("upstream", <<"https://", "accounts.google.com", "/o/oauth2/v2/auth">>,
           [client_id |-> clientId,
            redirect_uri |-> getRedirectUris(e).google,
            response_type |-> "code",
            scope |-> IF scope # "" THEN scope ELSE DEFAULT_SCOPE]
           @@ (IF state # "" THEN [state |-> state] ELSE <<>>))

\* the query of the URL that getGoogleAuthUrl builds
getGoogleAuthUrl(e, clientId, scope, state, codeChallenge, codeChallengeMethod) ==
  Location("upstream", <<"https://", "accounts.google.com", "/o/oauth2/v2/auth">>,
           [client_id |-> clientId,
            redirect_uri |-> getRedirectUris(e).google,
            response_type |-> "code",
            scope |-> IF scope # "" THEN scope ELSE DEFAULT_SCOPE]
           @@ (IF state # "" THEN [state |-> state] ELSE <<>>)
           @@ (IF codeChallenge # "" /\ codeChallengeMethod # ""
               THEN [code_challenge |-> codeChallenge,
                     code_challenge_method |-> codeChallengeMethod]
               ELSE <<>>))

AuthorizeGetResponse(e, q) ==
  LET authParams == [q EXCEPT !.scope = IF q.scope # "" THEN q.scope ELSE DEFAULT_SCOPE]
      paramValidation == validateAuthParams(authParams)
  IN  IF ~paramValidation.isValid
      THEN createOAuth21ErrorRedirect(authParams.redirect_uri, paramValidation.error,
                                      paramValidation.errorDescription, authParams.state)
      ELSE IF e.GOOGLE_CLIENT_ID = "" \/ authParams.client_id # e.GOOGLE_CLIENT_ID
      THEN createOAuth21ErrorRedirect(authParams.redirect_uri, "invalid_client",
                                      "Invalid client identifier", authParams.state)
      ELSE IF ~isAllowedRedirectUri(e, normalizeRedirectUri(authParams.redirect_uri))
      THEN OAuthError("invalid_request", "Invalid redirect_uri")
      ELSE Redirect(getGoogleAuthUrl(e, e.GOOGLE_CLIENT_ID, authParams.scope, authParams.state,
                                     authParams.code_challenge,
                                     authParams.code_challenge_method), <<>>)

AuthorizeQueries ==
  [response_type : {"code", "token", ""}, client_id : {"cid", "other", ""},
   redirect_uri : RedirectUris, scope : {"", "openid"}, state : {"", "s1"},
   code_challenge : {"", "ch"}, code_challenge_method : {"", "S256", "plain"}]

NoSource == [from |-> "none", value |-> NoCookie]

AuthorizeGet ==
  /\ Idle
  /\ \E q \in AuthorizeQueries :
       last' = Handled("authorize.GET", [src |-> NoSource, query |-> q, hops |-> 0],
                       AuthorizeGetResponse(env, q), {}, now)
  /\ UNCHANGED <<upstream, flights, env, now, store, jar, issued>>

\* the body of a POST to the authorization endpoint: form fields, or a body
\* that request.formData() rejects
NoForm == [response_type |-> "", client_id |-> "", redirect_uri |-> <<>>, scope |-> "",
           state |-> "", code_challenge |-> "", code_challenge_method |-> ""]
AuthorizeForms ==
  {[kind |-> "form", params |-> q] : q \in AuthorizeQueries}
  \cup {[kind |-> "bad", params |-> NoForm]}

AUTHORIZE_PATH == "/api/auth/authorize"

\* POST: the parameters that are not empty are put on the query of the
\* endpoint's own URL and the client is redirected there
AuthorizePostResponse(form) ==
  IF form.kind # "form"
  THEN OAuthError("server_error", "Authorization server error")
  ELSE LET authParams ==
             [form.params EXCEPT !.scope = IF form.params.scope # ""
                                           THEN form.params.scope ELSE DEFAULT_SCOPE]
           keys == {k \in (DOMAIN authParams) \ {"redirect_uri"} : authParams[k] # ""}
                   \cup (IF authParams.redirect_uri # <<>> THEN {"redirect_uri"} ELSE {})
       IN  Redirect(Location("self", <<AUTHORIZE_PATH>>, [k \in keys |-> authParams[k]]), <<>>)

AuthorizePost ==
  /\ Idle
  /\ \E form \in AuthorizeForms :
       last' = Handled("authorize.POST", [src |-> NoSource, form |-> form, hops |-> 0],
                       AuthorizePostResponse(form), {}, now)
  /\ UNCHANGED <<upstream, flights, env, now, store, jar, issued>>

\* the query that a GET to the location of a redirect carries
QueryOf(params) ==
  [k \in DOMAIN NoForm |-> IF k \in DOMAIN params THEN params[k] ELSE NoForm[k]]

\* the client follows the redirect of the POST: a 307 or 308 response is
\* followed with the method and the body of the request, any other
\* redirect with a GET
FollowRedirect ==
  /\ last.ep = "authorize.POST"
  /\ last.resp.kind = "redirect"
  /\ last.resp.location.origin = "self"
  /\ last.req.hops < MaxHops
  /\ last' = IF last.resp.status \in {307, 308}
             THEN Handled("authorize.POST",
                          [src |-> NoSource, form |-> last.req.form,
                           hops |-> last.req.hops + 1],
                          AuthorizePostResponse(last.req.form), {}, now)
             ELSE Handled("authorize.GET",
                          [src |-> NoSource, query |-> QueryOf(last.resp.location.params),
                           hops |-> last.req.hops + 1, form |-> last.req.form],
                          AuthorizeGetResponse(env, QueryOf(last.resp.location.params)),
                          {}, now)
  /\ UNCHANGED <<upstream, flights, env, now, store, jar, issued>>

\* the Authorization header of a token request: absent, or Basic followed by
\* base64 of "id:secret" (parts is the text split at ":"), or by no base64
NoBasic == [scheme |-> "", b64 |-> FALSE, parts |-> <<>>]
BasicHeaders ==
  { NoBasic,
    [scheme |-> "Basic ", b64 |-> TRUE, parts |-> <<"cid", "sec">>],
    [scheme |-> "Basic ", b64 |-> TRUE, parts |-> <<"cid", "wrong">>],
    [scheme |-> "Basic ", b64 |-> TRUE, parts |-> <<"cid", "sec", "x">>],
    [scheme |-> "Basic ", b64 |-> TRUE, parts |-> <<"other", "sec">>],
    [scheme |-> "Basic ", b64 |-> FALSE, parts |-> <<>>],
    [scheme |-> "Bearer ", b64 |-> TRUE, parts |-> <<"cid", "sec">>] }

\* variant: only the body is looked at
ClientSecretOf_bodyOnly(e, params, header) == params.client_secret

\* lines 75-91: the secret of the body, else the one of a Basic header that
\* names the configured client
ClientSecretOf(e, params, header) ==
  IF params.client_secret # "" THEN params.client_secret
  ELSE IF header.scheme = "Basic " /\ header.b64 /\ Len(header.parts) >= 1
          /\ header.parts[1] = e.GOOGLE_CLIENT_ID
  THEN IF Len(header.parts) >= 2 THEN header.parts[2] ELSE ""
  ELSE ""

TokenBodies ==
  [kind : {"form", "json"}, grant_type : {"authorization_code", "password"},
   code : {"", "c1"}, redirect_uri : RedirectUris, client_id : {"cid", "other"},
   client_secret : {"", "sec", "wrong"}, code_verifier : {"", "ver"}]
  \cup [kind : {"bad", "null"}, grant_type : {""}, code : {""}, redirect_uri : {<<>>},
        client_id : {""}, client_secret : {""}, code_verifier : {""}]

\* variant: the answer of the exchange is not looked at
ExchangeFailed_never(x) == FALSE

\* line 116: !success || !tokens (tokens is an object whenever success is set)
ExchangeFailed(x) == ~x.success

\* variant: the exception leaves the handler and the framework answers
TokenCatch_rethrow == Override(BlankResponse, [kind |-> "fault", status |-> 500])

\* lines 179-187: the catch block around the whole handler
TokenCatch == OAuthError("server_error", "Token endpoint error")

\* variant: the handler keeps the codes it redeemed in a map of the process
\* and refuses a code it finds there
TokenPostResult_authCodes(e, body, header, x, v) ==
  IF body.kind \in {"bad", "null"}
  THEN [resp |-> TokenCatch, trace |-> {}]
  ELSE LET paramValidation == validateTokenParams(body)
           clientSecret == ClientSecretOf(e, body, header)
       IN  IF ~paramValidation.isValid
           THEN [resp |-> OAuthError(paramValidation.error, paramValidation.errorDescription),
                 trace |-> {}]
           ELSE IF e.GOOGLE_CLIENT_ID = "" \/ e.GOOGLE_CLIENT_SECRET = ""
           THEN [resp |-> OAuthError("server_error", "OAuth client not configured"),
                 trace |-> {}]
           ELSE IF body.client_id # e.GOOGLE_CLIENT_ID
           THEN [resp |-> OAuthError("invalid_client", "Invalid client identifier"),
                 trace |-> {}]
           ELSE IF clientSecret = "" \/ clientSecret # e.GOOGLE_CLIENT_SECRET
           THEN [resp |-> OAuthError("invalid_client", "Invalid client authentication"),
                 trace |-> {}]
           ELSE IF ~isAllowedRedirectUri(e, body.redirect_uri)
           THEN [resp |-> OAuthError("invalid_request", "Invalid redirect_uri"), trace |-> {}]
           ELSE IF body.code \in upstream
           THEN [resp |-> OAuthError("invalid_grant", "Invalid authorization code"),
                 trace |-> {}]
           ELSE IF ExchangeFailed(x)
           THEN [resp |-> OAuthError("invalid_grant", "Invalid authorization code"),
                 trace |-> {"exchange"}]
           ELSE IF v.result = "throws"
           THEN [resp |-> OAuthError("invalid_grant", "Token verification failed"),
                 trace |-> {"exchange", "verifyGoogleToken"}]
           ELSE IF v.result # "user"
           THEN [resp |-> OAuthError("invalid_grant", "Failed to verify user information"),
                 trace |-> {"exchange", "verifyGoogleToken"}]
           ELSE [resp |-> Json(200, [result |-> "token"]),
                 trace |-> {"exchange", "verifyGoogleToken"}]

TokenPostResult(e, body, header, x, v) ==
  IF body.kind \in {"bad", "null"}
  THEN [resp |-> TokenCatch, trace |-> {}]
  ELSE LET paramValidation == validateTokenParams(body)
           clientSecret == ClientSecretOf(e, body, header)
       IN  IF ~paramValidation.isValid
           THEN [resp |-> OAuthError(paramValidation.error, paramValidation.errorDescription),
                 trace |-> {}]
           ELSE IF e.GOOGLE_CLIENT_ID = "" \/ e.GOOGLE_CLIENT_SECRET = ""
           THEN [resp |-> OAuthError("server_error", "OAuth client not configured"),
                 trace |-> {}]
           ELSE IF body.client_id # e.GOOGLE_CLIENT_ID
           THEN [resp |-> OAuthError("invalid_client", "Invalid client identifier"),
                 trace |-> {}]
           ELSE IF clientSecret = "" \/ clientSecret # e.GOOGLE_CLIENT_SECRET
           THEN [resp |-> OAuthError("invalid_client", "Invalid client authentication"),
                 trace |-> {}]
           ELSE IF ~isAllowedRedirectUri(e, body.redirect_uri)
           THEN [resp |-> OAuthError("invalid_request", "Invalid redirect_uri"), trace |-> {}]
           ELSE IF ExchangeFailed(x)
           THEN [resp |-> OAuthError("invalid_grant", "Invalid authorization code"),
                 trace |-> {"exchange"}]
           ELSE IF v.result = "throws"
           THEN [resp |-> OAuthError("invalid_grant", "Token verification failed"),
                 trace |-> {"exchange", "verifyGoogleToken"}]
           ELSE IF v.result # "user"
           THEN [resp |-> OAuthError("invalid_grant", "Failed to verify user information"),
                 trace |-> {"exchange", "verifyGoogleToken"}]
           ELSE [resp |-> Json(200, [result |-> "token"]),
                 trace |-> {"exchange", "verifyGoogleToken"}]

TokenPost ==
  /\ Idle
  /\ \E body \in TokenBodies, header \in BasicHeaders, x \in Exchanges,
        v \in Verifications \cup {NoVerify} :
       LET r == TokenPostResult(env, body, header, x, v)
       IN  \* the provider answers only when it is asked
           /\ ("exchange" \notin r.trace) => x = [success |-> FALSE, tokens |-> NoTokens]
           /\ (v # NoVerify) <=> ("verifyGoogleToken" \in r.trace)
           /\ last' = Handled("token.POST",
                              [src |-> NoSource, body |-> body, authorization |-> header,
                               exchange |-> x, verify |-> v],
                              r.resp, r.trace, now)
  /\ UNCHANGED <<upstream, flights, env, now, store, jar, issued>>

(***************************************************************************)
(* Token requests in progress and the provider's authorization codes       *)
(***************************************************************************)
Flights == 1..MaxFlights

\* a token request in progress: where its handler stands (pc), its body,
\* the answers it got from the provider, its response, the number of calls
\* it made to the provider's token endpoint and whether one redeemed a code
NoFlight ==
  [pc |-> "idle", body |-> <<>>, x |-> [success |-> FALSE, tokens |-> NoTokens],
   v |-> NoVerify, resp |-> BlankResponse, calls |-> 0, redeemed |-> FALSE]

\* the authorization codes that the provider has issued to this client
ValidCodes == {"c1"}

\* the provider's token endpoint honours a code once: upstream holds the
\* codes that were redeemed
ProviderExchange(code, used) ==
  IF code \in ValidCodes \ used
  THEN [success |-> TRUE, tokens |-> [id_token |-> "idt", access_token |-> "at"]]
  ELSE [success |-> FALSE, tokens |-> NoTokens]

\* bodies of the requests: a valid one and ones that fail one step each
ReplayBody ==
  [kind |-> "form", grant_type |-> "authorization_code", code |-> "c1",
   redirect_uri |-> <<"http://", "localhost", ":3000", CALLBACK_PATH>>,
   client_id |-> "cid", client_secret |-> "sec", code_verifier |-> ""]
ReplayBodies ==
  { ReplayBody,
    [ReplayBody EXCEPT !.code = "bogus"],
    [ReplayBody EXCEPT !.grant_type = "password"],
    [ReplayBody EXCEPT !.grant_type = "password", !.client_secret = "wrong"],
    [ReplayBody EXCEPT !.client_secret = "wrong"],
    [ReplayBody EXCEPT !.client_secret = "wrong",
                       !.redirect_uri = <<"https://", "evil.example", "/cb">>],
    [ReplayBody EXCEPT !.redirect_uri = <<"http://", "localhost", ":3000", CALLBACK_PATH,
                                          "/", "/">>] }

\* lines 18-106: the handler runs up to its first call to the provider
TokenBegin ==
  \E i \in Flights, body \in ReplayBodies :
    LET r == TokenPostResult(env, body, NoBasic, NoFlight.x, NoVerify)
    IN  /\ flights[i].pc = "idle"
        /\ flights' = [flights EXCEPT ![i] =
                         IF "exchange" \in r.trace
                         THEN [NoFlight EXCEPT !.pc = "exchange", !.body = body]
                         ELSE [NoFlight EXCEPT !.pc = "done", !.body = body, !.resp = r.resp]]
        /\ UNCHANGED <<env, now, store, jar, issued, last, upstream>>

\* lines 109-122: the call to the provider's token endpoint returns
TokenExchange ==
  \E i \in Flights :
    LET f == flights[i]
        x == ProviderExchange(f.body.code, upstream)
        r == TokenPostResult(env, f.body, NoBasic, x, NoVerify)
    IN  /\ f.pc = "exchange"
        /\ upstream' = IF x.success THEN upstream \cup {f.body.code} ELSE upstream
        /\ flights' = [flights EXCEPT ![i] =
                         IF "verifyGoogleToken" \in r.trace
                         THEN [f EXCEPT !.pc = "verify", !.x = x, !.calls = f.calls + 1,
                                        !.redeemed = x.success]
                         ELSE [f EXCEPT !.pc = "done", !.x = x, !.calls = f.calls + 1,
                                        !.redeemed = x.success, !.resp = r.resp]]
        /\ UNCHANGED <<env, now, store, jar, issued, last>>

\* lines 125-177: verifyGoogleToken returns and the handler answers
TokenVerify ==
  \E i \in Flights, v \in Verifications :
    LET f == flights[i]
        r == TokenPostResult(env, f.body, NoBasic, f.x, v)
    IN  /\ f.pc = "verify"
        /\ flights' = [flights EXCEPT ![i] = [f EXCEPT !.pc = "done", !.v = v, !.resp = r.resp]]
        /\ UNCHANGED <<env, now, store, jar, issued, last, upstream>>

NextToken ==
  \/ TokenBegin
  \/ TokenExchange
  \/ TokenVerify

(***************************************************************************)
(* The system                                                              *)
(***************************************************************************)
Init ==
  /\ env \in Envs
  /\ now = 1
  /\ store = [i \in PersonIds |-> ABSENT]
  /\ jar = EmptyJar
  /\ issued = NoSession
  /\ last = NoRequest
  /\ upstream = {}
  /\ flights = [i \in Flights |-> NoFlight]

Next ==
  \/ Tick
  \/ Receive
  \/ SessionStatus
  \/ Callback
  \/ McpPost
  \/ McpGet
  \/ LogoutPost
  \/ LogoutGet
  \/ Middleware
  \/ PeopleGet

Spec == Init /\ [][Next]_vars

\* the OAuth endpoints on their own: they read the configuration and the
\* request only
NextOAuth ==
  \/ AuthorizeGet
  \/ AuthorizePost
  \/ FollowRedirect
  \/ TokenPost
  \/ Receive

SpecOAuth == Init /\ [][NextOAuth]_vars

\* token requests handled concurrently against one provider
SpecToken == Init /\ [][NextToken]_vars

(***************************************************************************)
(* The parameter validators on their own                                   *)
(***************************************************************************)
\* a call of validateAuthParams(params) and its return value
ValidateAuthParamsCall ==
  /\ Idle
  /\ \E params \in AuthorizeQueries :
       last' = Handled("validateAuthParams", [src |-> NoSource, params |-> params],
                       [value |-> validateAuthParams(params)], {}, now)
  /\ UNCHANGED <<upstream, flights, env, now, store, jar, issued>>

\* a call of validateTokenParams(params) and its return value
ValidateTokenParamsCall ==
  /\ Idle
  /\ \E params \in {b \in TokenBodies : b.kind \in {"form", "json"}} :
       last' = Handled("validateTokenParams", [src |-> NoSource, params |-> params],
                       [value |-> validateTokenParams(params)], {}, now)
  /\ UNCHANGED <<upstream, flights, env, now, store, jar, issued>>

NextValidate ==
  \/ ValidateAuthParamsCall
  \/ ValidateTokenParamsCall
  \/ Receive

SpecValidate == Init /\ [][NextValidate]_vars

(***************************************************************************)
(* The redirect URI functions on their own                                 *)
(***************************************************************************)
\* configurations: those of Envs and a development server bound to the
\* loopback address on another port
UriEnvs ==
  Envs \cup { Override(EnvBase, [GOOGLE_CLIENT_ID |-> "cid", GOOGLE_CLIENT_SECRET |-> "sec",
                                 NODE_ENV |-> "development",
                                 HOST |-> "127.0.0.1", PORT |-> "4000"]) }

\* URIs handed to the functions: scheme, host, port, path and what follows
UriHosts == {"localhost", "127.0.0.1", "LOCALHOST", "MyApp.example", "myapp.example",
             "evil.example"}
UriInputs ==
  { <<sch, host>> \o port \o <<path>> \o rest :
      sch \in {"http://", "https://"}, host \in UriHosts,
      port \in {<<>>, <<":3000">>, <<":4000">>},
      path \in {CALLBACK_PATH, "/API/AUTH/CALLBACK/GOOGLE", "/cb"},
      rest \in {<<>>, <<"/">>, <<"/", "/">>, <<"?next=", "127.0.0.1">>} }
  \cup {<<>>, <<"not a url">>}

InitUri ==
  /\ env \in UriEnvs
  /\ now = 1
  /\ store = [i \in PersonIds |-> ABSENT]
  /\ jar = EmptyJar
  /\ issued = NoSession
  /\ last = NoRequest
  /\ upstream = {}
  /\ flights = [i \in Flights |-> NoFlight]

\* a call of isAllowedRedirectUri(uri) and its return value
IsAllowedRedirectUriCall ==
  /\ Idle
  /\ \E uri \in UriInputs :
       last' = Handled("isAllowedRedirectUri", [src |-> NoSource, uri |-> uri],
                       [value |-> isAllowedRedirectUri(env, uri)], {}, now)
  /\ UNCHANGED <<upstream, flights, env, now, store, jar, issued>>

\* a call of normalizeRedirectUri(uri) and its return value
NormalizeRedirectUriCall ==
  /\ Idle
  /\ \E uri \in UriInputs :
       last' = Handled("normalizeRedirectUri", [src |-> NoSource, uri |-> uri],
                       [value |-> normalizeRedirectUri(uri)], {}, now)
  /\ UNCHANGED <<upstream, flights, env, now, store, jar, issued>>

NextUri ==
  \/ IsAllowedRedirectUriCall
  \/ NormalizeRedirectUriCall
  \/ Receive

SpecUri == InitUri /\ [][NextUri]_vars

(***************************************************************************)
(* The base URL on its own                                                 *)
(***************************************************************************)
\* configurations: every combination of the signals that getBaseUrl reads,
\* each unset or set, the URLs also with one and with two trailing slashes
BaseUrlEnvs ==
  { Override(EnvBase, [PRODUCTION_URL |-> p, NEXTAUTH_URL |-> n, VERCEL_URL |-> v,
                       VERCEL_ENV |-> ve, VERCEL_PROJECT_PRODUCTION_URL |-> vp,
                       NODE_ENV |-> ne, HOST |-> h, PORT |-> pt]) :
      p \in {<<>>, <<"https://", "prod.example">>, <<"https://", "prod.example", "/">>,
             <<"https://", "prod.example", "/", "/">>},
      n \in {<<>>, <<"https://", "MyApp.example", "/">>},
      v \in {<<>>, <<"app.vercel.example">>, <<"app.vercel.example", "/">>},
      ve \in {"", "production", "preview"},
      vp \in {<<>>, <<"proj.example">>},
      ne \in {"development", "production"},
      h \in {"", "127.0.0.1"},
      pt \in {"", "4000"} }

InitBaseUrl ==
  /\ env \in BaseUrlEnvs
  /\ now = 1
  /\ store = [i \in PersonIds |-> ABSENT]
  /\ jar = EmptyJar
  /\ issued = NoSession
  /\ last = NoRequest
  /\ upstream = {}
  /\ flights = [i \in Flights |-> NoFlight]

\* a call of getBaseUrl() and its return value
GetBaseUrlCall ==
  /\ Idle
  /\ last' = Handled("getBaseUrl", [src |-> NoSource, env |-> env],
                     [value |-> getBaseUrl(env)], {}, now)
  /\ UNCHANGED <<upstream, flights, env, now, store, jar, issued>>

NextBaseUrl ==
  \/ GetBaseUrlCall
  \/ Receive

SpecBaseUrl == InitBaseUrl /\ [][NextBaseUrl]_vars

(***************************************************************************)
(* Properties of the JSON-RPC endpoint                                     *)
(***************************************************************************)
McpCall == last.ep = "mcp.POST" /\ last.req.body.json = "obj"
McpProtected == McpCall /\ last.req.body.method \notin {"initialize", "tools/list"}
McpUnauthorized ==
  /\ last.resp.kind = "json"
  /\ last.resp.status = 401
  /\ last.resp.code = -32603
McpNotExecuted == "handleMCPTool" \notin last.trace /\ store = last.req.store

\* C1: a JSON-RPC POST for a method other than initialize and tools/list,
\* unknown methods included, that carries no Authorization header and no
\* oauth_session cookie is answered with the error envelope -32603 and HTTP
\* 401; handleMCPTool is not invoked and the directory is unchanged.
C1_NoCredentialIsUnauthorized ==
  (McpProtected /\ ~last.req.authorization.present /\ last.req.cookie.enc = "absent")
    => (McpUnauthorized /\ McpNotExecuted)

C1_Witness ==
  /\ McpProtected
  /\ last.req.body.method = "resources/list"
  /\ ~last.req.authorization.present
  /\ last.req.cookie.enc = "absent"
  /\ last.resp.status = 401
  /\ \E i \in PersonIds : store[i] # ABSENT

BearerRejected ==
  /\ last.req.authorization.present
  /\ last.req.authorization.value \in {<<"Bearer ", "tokA">>, <<"tokA">>}
  /\ last.req.verify.result \in {"null", "throws"}

\* the cookie of the request decodes to a JSON value whose properties can be
\* read; Payload is then its object (empty for a JSON number)
Decodable == last.req.cookie.enc = "b64" /\ last.req.cookie.json \in {"obj", "num"}
Payload == IF last.req.cookie.json = "obj" THEN last.req.cookie.obj ELSE <<>>

\* the cookie of the request is the credential the callback issued last
IssuedCookie ==
  /\ last.req.src.from \in {"jar", "copy"}
  /\ last.req.cookie.enc = "b64"
  /\ last.req.cookie = issued.cookie

C10_UnauthorizedIsUniform ==
  (McpCall /\ last.resp.status = 401)
    => /\ last.resp.code = -32603
       /\ last.resp.message = "Unauthorized - Missing authorization header or session cookie"
       /\ last.resp.wwwAuthenticate

(***************************************************************************)
(* Properties of the session credential                                    *)
(***************************************************************************)
\* a validator was handed a cookie and answered
SessionStatusOf == last.ep = "session.GET"
McpBySession == McpProtected /\ ~last.req.authorization.present
MiddlewareGuarded ==
  /\ last.ep = "middleware"
  /\ last.req.pathname \in {<<"/">>, <<"/about">>, <<"/about", "/team">>, <<"/mcp">>}

\* what each validator reports
ReportedValid ==
  \/ SessionStatusOf /\ last.resp.authenticated
  \/ McpBySession /\ last.resp.status # 401
  \/ MiddlewareGuarded /\ last.resp.kind = "next"
ReportedClaims ==
  IF SessionStatusOf
  THEN [k \in (DOMAIN last.resp.user) \cap {"sub", "email", "name"} |-> last.resp.user[k]]
  ELSE last.req.user.claims

\* C4 as claimed: an issued session is valid with its claims at every
\* instant before issuance + 86400 s and not valid from that instant on.
C4_ValidStrictlyBeforeExpiry ==
  ((SessionStatusOf \/ McpBySession \/ MiddlewareGuarded) /\ IssuedCookie)
    => (ReportedValid <=> last.at < issued.at + SESSION_TTL)

\* C4 as amended: an issued session is valid, with the claims it was issued
\* for, at every instant up to and including issuance + 86400 s, and is not
\* valid at any later instant.
C4_ValidUpToExpiry ==
  ((SessionStatusOf \/ McpBySession \/ MiddlewareGuarded) /\ IssuedCookie)
    => /\ ReportedValid <=> last.at <= issued.at + SESSION_TTL
       /\ (ReportedValid /\ ~MiddlewareGuarded) => ReportedClaims = issued.claims

C4_Witness ==
  /\ SessionStatusOf
  /\ IssuedCookie
  /\ last.at = issued.at + SESSION_TTL
  /\ last.resp.authenticated
  /\ last.resp.user.sub = "u2"

\* the expiry of the decoded credential lies in the past
ExpiredCookie == Decodable /\ Has(Payload, "exp") /\ Payload.exp < last.at

\* C5: a cookie that does not decode, and a cookie that is expired, is
\* reported as not authenticated and never as a fault: the session-status
\* endpoint answers 200 with authenticated = false, the JSON-RPC
\* authenticator answers the 401 envelope.
C5_BadCookieIsNotAuthenticated ==
  ((SessionStatusOf \/ McpBySession)
     /\ last.req.cookie.enc # "absent" /\ (~Decodable \/ ExpiredCookie))
    => /\ SessionStatusOf => (last.resp.status = 200 /\ ~last.resp.authenticated)
       /\ McpBySession => (McpUnauthorized /\ McpNotExecuted)

\* C6: no validator accepts a credential unless its payload carries an
\* expiry that is not in the past; a payload without exp, or with exp = 0,
\* is never accepted.
C6_ExpiryAlwaysChecked ==
  ((SessionStatusOf \/ McpBySession \/ MiddlewareGuarded) /\ ReportedValid)
    => /\ Decodable
       /\ Has(Payload, "exp")
       /\ Payload.exp # 0
       /\ Payload.exp >= last.at

\* C7: every logout response, of POST and of GET on either path, tells the
\* client to discard the oauth_session cookie.
C7_LogoutDiscardsCookie ==
  (last.ep \in {"logout.POST", "logout.GET"}) => last.resp.cookieOp = "delete"

(***************************************************************************)
(* Properties of the authorization and token endpoints                     *)
(***************************************************************************)
AuthorizeOf == last.ep = "authorize.GET"
TokenOf == last.ep = "token.POST" /\ last.req.body.kind \in {"form", "json"}

\* the allow-list check of each endpoint rejects the redirect_uri of the
\* request: the authorization endpoint compares the URI after
\* normalizeRedirectUri, the token endpoint the URI as sent
NormalizedForCompare(uri) == StripSlash(ReplaceLoopback(uri))
AllowListRejects(uri) ==
  \A x \in allowedRedirects(env) : NormalizedForCompare(uri) # NormalizedForCompare(x)
AuthorizeUriRejected ==
  AuthorizeOf /\ AllowListRejects(normalizeRedirectUri(last.req.query.redirect_uri))
TokenUriRejected == TokenOf /\ AllowListRejects(last.req.body.redirect_uri)

\* the checks that come before the allow-list check pass
AuthorizeEarlierChecksPass ==
  /\ last.req.query.response_type = "code"
  /\ last.req.query.client_id # ""
  /\ last.req.query.client_id = env.GOOGLE_CLIENT_ID
  /\ (last.req.query.code_challenge = "" \/ last.req.query.code_challenge_method = "S256")
TokenEarlierChecksPass ==
  /\ last.req.body.grant_type = "authorization_code"
  /\ last.req.body.code # ""
  /\ env.GOOGLE_CLIENT_ID # "" /\ env.GOOGLE_CLIENT_SECRET # ""
  /\ last.req.body.client_id = env.GOOGLE_CLIENT_ID
  /\ \/ last.req.body.client_secret = env.GOOGLE_CLIENT_SECRET
     \/ /\ last.req.body.client_secret = ""
        /\ last.req.authorization.scheme = "Basic "
        /\ last.req.authorization.b64
        /\ last.req.authorization.parts = <<env.GOOGLE_CLIENT_ID, env.GOOGLE_CLIENT_SECRET>>

ToUpstream == last.resp.kind = "redirect" /\ last.resp.location.origin = "upstream"

C3_OtherResponseTypeIsUnsupported ==
  (AuthorizeOf /\ last.req.query.response_type # "code")
    => (last.resp.error = "unsupported_response_type" /\ ~ToUpstream)

\* C3 as amended: such a request is never redirected to the provider; it
\* is answered with unsupported_response_type, except that a redirect_uri
\* which is present but is not a parseable absolute URL is answered with
\* the JSON error invalid_request.
C3_OtherResponseTypeIsRefused ==
  (AuthorizeOf /\ last.req.query.response_type # "code")
    => /\ ~ToUpstream
       /\ IF /\ last.req.query.redirect_uri # <<>>
             /\ ~UrlParses(last.req.query.redirect_uri)
          THEN last.resp.kind = "json" /\ last.resp.error = "invalid_request"
          ELSE last.resp.error = "unsupported_response_type"

C3_Witness ==
  /\ AuthorizeOf
  /\ last.req.query.response_type = "token"
  /\ last.req.query.client_id = env.GOOGLE_CLIENT_ID
  /\ last.req.query.redirect_uri = <<"http://", "localhost", ":3000", CALLBACK_PATH>>
  /\ last.resp.kind = "redirect"
  /\ last.resp.location.origin = "caller"
  /\ last.resp.error = "unsupported_response_type"

(***************************************************************************)
(* Public methods of the JSON-RPC endpoint                                 *)
(***************************************************************************)
McpPublic == McpCall /\ last.req.body.method \in {"initialize", "tools/list"}
McpGetOf == last.ep = "mcp.GET"

\* C11: initialize, tools/list and GET on the endpoint never invoke the
\* authenticator and answer with their result (or the server metadata) for
\* every Authorization header and every cookie, a bearer token the provider
\* would reject and an expired or undecodable cookie included.
C11_PublicSkipsAuthentication ==
  /\ McpPublic
       => /\ last.trace = {}
          /\ last.resp.kind = "json" /\ last.resp.status = 200 /\ last.resp.code = 0
          /\ last.resp.result
               = (IF last.req.body.method = "initialize" THEN "serverInfo" ELSE "tools")
          /\ store = last.req.store
  /\ McpGetOf
       => /\ last.trace = {}
          /\ last.resp.kind = "json" /\ last.resp.status = 200
          /\ last.resp.result = "metadata"
          /\ store = last.req.store

C11_Witness ==
  /\ McpPublic
  /\ last.req.body.method = "tools/list"
  /\ last.req.authorization = Header(<<"Bearer ", "tokA">>)
  /\ last.req.cookie.enc = "b64" /\ last.req.cookie.json = "bad"
  /\ last.resp.result = "tools"

(***************************************************************************)
(* Properties of the redirect URI allow-list                               *)
(***************************************************************************)
IsAllowedOf == last.ep = "isAllowedRedirectUri"

\* the URI with the host written as the other loopback alias; the host is
\* what follows the scheme
OtherAlias(uri) ==
  IF Len(uri) >= 2 /\ uri[2] \in {"127.0.0.1", "localhost"}
  THEN [uri EXCEPT ![2] = IF uri[2] = "127.0.0.1" THEN "localhost" ELSE "127.0.0.1"]
  ELSE uri

\* C12: isAllowedRedirectUri gives the same answer for a URI and for the
\* URI with host 127.0.0.1 written as localhost, and conversely; an entry
\* of the allow-list written with one alias admits the other.
C12_LoopbackAliasesAreEquivalent ==
  IsAllowedOf => last.resp.value = isAllowedRedirectUri(env, OtherAlias(last.req.uri))

C12_Witness ==
  /\ IsAllowedOf
  /\ env.HOST = "127.0.0.1"
  /\ last.req.uri = <<"http://", "localhost", ":4000", CALLBACK_PATH>>
  /\ last.req.uri \notin allowedRedirects(env)
  /\ OtherAlias(last.req.uri) \in allowedRedirects(env)
  /\ last.resp.value

\* C13: isAllowedRedirectUri(uri) is true exactly when the URI equals an
\* entry of the allow-list after both are case-folded, stripped of one
\* trailing slash and have 127.0.0.1 written as localhost.
C13_AllowedIffNormalizedEqual ==
  IsAllowedOf
    => (last.resp.value
          <=> \E x \in allowedRedirects(env) :
                normalizeRedirectUri(last.req.uri) = normalizeRedirectUri(x))

(***************************************************************************)
(* Properties of the parameter validators                                  *)
(***************************************************************************)
ValidateAuthOf == last.ep = "validateAuthParams"

\* C14: validateAuthParams reports the first failing rule in the order
\* response_type, client_id, redirect_uri, PKCE method, and reports valid
\* exactly when no rule fails.
C14_FirstFailingAuthRuleWins ==
  ValidateAuthOf
    => LET p == last.req.params
           r == last.resp.value
           badType == p.response_type # "code"
           noClient == p.client_id = ""
           noUri == p.redirect_uri = <<>>
           badPkce == p.code_challenge # "" /\ p.code_challenge_method # "S256"
       IN  /\ badType => (~r.isValid /\ r.error = "unsupported_response_type")
           /\ (~badType /\ noClient)
                => (~r.isValid /\ r.error = "invalid_request"
                    /\ r.errorDescription = "Missing client_id")
           /\ (~badType /\ ~noClient /\ noUri)
                => (~r.isValid /\ r.error = "invalid_request"
                    /\ r.errorDescription = "Missing redirect_uri")
           /\ (~badType /\ ~noClient /\ ~noUri /\ badPkce)
                => (~r.isValid /\ r.error = "invalid_request"
                    /\ r.errorDescription = "Only S256 code challenge method is supported")
           /\ r.isValid <=> ~(badType \/ noClient \/ noUri \/ badPkce)

C14_Witness ==
  /\ ValidateAuthOf
  /\ last.req.params.response_type = "token"
  /\ last.req.params.client_id = ""
  /\ last.req.params.redirect_uri = <<>>
  /\ last.req.params.code_challenge = "ch"
  /\ last.req.params.code_challenge_method = "plain"
  /\ last.resp.value.error = "unsupported_response_type"

\* the messages of the three rules of validateTokenParams
TokenRuleMessages ==
  { "Only authorization_code grant type is supported", "Missing authorization code",
    "Missing redirect_uri" }

\* C15: the token endpoint answers the first failing rule of
\* validateTokenParams (grant_type, code, redirect_uri, in that order) with
\* the JSON error and HTTP 400, before the client is authenticated and
\* before the provider is called; no rule is reported when none fails.
C15_FirstFailingTokenRuleWins ==
  TokenOf
    => LET p == last.req.body
           r == last.resp
           badGrant == p.grant_type # "authorization_code"
           noCode == p.code = ""
           noUri == p.redirect_uri = <<>>
           Rejected(error, message) ==
             /\ r.kind = "json" /\ r.status = 400
             /\ r.error = error /\ r.message = message
             /\ last.trace = {}
       IN  /\ badGrant
                => Rejected("unsupported_grant_type",
                            "Only authorization_code grant type is supported")
           /\ (~badGrant /\ noCode) => Rejected("invalid_request", "Missing authorization code")
           /\ (~badGrant /\ ~noCode /\ noUri)
                => Rejected("invalid_request", "Missing redirect_uri")
           /\ (r.message \in TokenRuleMessages) <=> (badGrant \/ noCode \/ noUri)

C15_Witness ==
  /\ TokenOf
  /\ last.req.body.grant_type = "password"
  /\ last.req.body.code = ""
  /\ last.req.body.client_id = "other"
  /\ last.req.body.client_secret = "wrong"
  /\ last.resp.error = "unsupported_grant_type"
  /\ last.resp.status = 400

(***************************************************************************)
(* Outcomes of the authorization endpoint                                  *)
(***************************************************************************)
\* the request fails a rule of parameter validation
AuthorizeValidationFails ==
  \/ last.req.query.response_type # "code"
  \/ last.req.query.client_id = ""
  \/ last.req.query.redirect_uri = <<>>
  \/ (last.req.query.code_challenge # "" /\ last.req.query.code_challenge_method # "S256")

\* the parameter k of the request is on the redirect with the same value,
\* and is not on the redirect when the request had none
PassedOn(k) ==
  IF last.req.query[k] = ""
  THEN k \notin DOMAIN last.resp.location.params
  ELSE Has(last.resp.location.params, k) /\ last.resp.location.params[k] = last.req.query[k]

\* C16: a validation failure with a parseable redirect_uri is answered by a
\* redirect to that URI with error, error_description and the state of the
\* request unchanged; without a redirect_uri, or with one that does not
\* parse, the answer is a JSON error with HTTP 400 and no redirect.
C16_ValidationFailureGoesToCaller ==
  (AuthorizeOf /\ AuthorizeValidationFails)
    => IF last.req.query.redirect_uri # <<>> /\ UrlParses(last.req.query.redirect_uri)
       THEN /\ last.resp.kind = "redirect"
            /\ last.resp.location.origin = "caller"
            /\ last.resp.location.path = last.req.query.redirect_uri
            /\ Has(last.resp.location.params, "error")
            /\ last.resp.location.params.error
                 = (IF last.req.query.response_type # "code"
                    THEN "unsupported_response_type" ELSE "invalid_request")
            /\ Has(last.resp.location.params, "error_description")
            /\ PassedOn("state")
       ELSE /\ last.resp.kind = "json"
            /\ last.resp.status = 400
            /\ last.resp.error # ""
            /\ last.resp.location = NoLocation

C16_Witness ==
  /\ AuthorizeOf
  /\ last.req.query.response_type = "code"
  /\ last.req.query.client_id = ""
  /\ last.req.query.redirect_uri = <<"https://", "evil.example", "/cb">>
  /\ last.req.query.state = "s1"
  /\ last.resp.kind = "redirect"
  /\ last.resp.location.params.state = "s1"
  /\ last.resp.location.params.error = "invalid_request"

\* the request passes validation, the client check and the allow-list
AuthorizeGranted ==
  /\ AuthorizeOf
  /\ ~AuthorizeValidationFails
  /\ AuthorizeEarlierChecksPass
  /\ ~AuthorizeUriRejected

ScopePassedOn ==
  /\ Has(last.resp.location.params, "scope")
  /\ last.resp.location.params.scope
       = (IF last.req.query.scope = "" THEN DEFAULT_SCOPE ELSE last.req.query.scope)

\* C17 as claimed: a granted request is redirected to the provider with
\* scope, state, code_challenge and code_challenge_method as in the request.
C17_GrantForwardsAllParameters ==
  AuthorizeGranted
    => /\ ToUpstream
       /\ ScopePassedOn
       /\ PassedOn("state")
       /\ PassedOn("code_challenge")
       /\ PassedOn("code_challenge_method")

\* C17 as amended: a granted request is redirected to the provider with
\* scope and state as in the request; code_challenge and
\* code_challenge_method are passed on together when the request has a
\* code_challenge, and neither is passed on when it has none.
C17_GrantForwardsPkcePair ==
  AuthorizeGranted
    => /\ ToUpstream
       /\ ScopePassedOn
       /\ PassedOn("state")
       /\ IF last.req.query.code_challenge # ""
          THEN /\ PassedOn("code_challenge")
               /\ PassedOn("code_challenge_method")
               /\ last.resp.location.params.code_challenge_method = "S256"
          ELSE /\ "code_challenge" \notin DOMAIN last.resp.location.params
               /\ "code_challenge_method" \notin DOMAIN last.resp.location.params

C17_Witness ==
  /\ AuthorizeGranted
  /\ last.req.query.code_challenge = "ch"
  /\ last.req.query.code_challenge_method = "S256"
  /\ last.req.query.state = "s1"
  /\ last.req.query.scope = ""
  /\ ToUpstream
  /\ last.resp.location.params.code_challenge = "ch"
  /\ last.resp.location.params.scope = DEFAULT_SCOPE

\* a request that arrived by following the redirect of a POST
Followed == last.ep \in {"authorize.POST", "authorize.GET"} /\ last.req.hops > 0

\* C18: the response of a POST to the authorization endpoint, once
\* followed, is handled as a GET with the parameters of the form and ends
\* as a direct GET with these parameters ends; the POST handler is never
\* entered again.
C18_PostIsReexpressedAsGet ==
  Followed
    => /\ last.ep = "authorize.GET"
       /\ last.resp = AuthorizeGetResponse(env, last.req.form.params)

(***************************************************************************)
(* Client authentication at the token endpoint                             *)
(***************************************************************************)
\* a parsed token request that passes parameter validation, at a server
\* whose client is configured
TokenValidated ==
  /\ TokenOf
  /\ last.req.body.grant_type = "authorization_code"
  /\ last.req.body.code # ""
  /\ last.req.body.redirect_uri # <<>>
  /\ env.GOOGLE_CLIENT_ID # "" /\ env.GOOGLE_CLIENT_SECRET # ""

ClientIdMatches == last.req.body.client_id = env.GOOGLE_CLIENT_ID
BodySecretMatches == last.req.body.client_secret = env.GOOGLE_CLIENT_SECRET

\* the decoded Basic credentials are id ":" secret: the id is the text
\* before the first colon, the secret all the text after it
BasicSecretMatches ==
  /\ last.req.authorization.scheme = "Basic "
  /\ last.req.authorization.b64
  /\ last.req.authorization.parts = <<env.GOOGLE_CLIENT_ID, env.GOOGLE_CLIENT_SECRET>>

\* the second field of the decoded Basic credentials split at every colon
BasicSecondFieldMatches ==
  /\ last.req.authorization.scheme = "Basic "
  /\ last.req.authorization.b64
  /\ Len(last.req.authorization.parts) >= 2
  /\ last.req.authorization.parts[1] = env.GOOGLE_CLIENT_ID
  /\ last.req.authorization.parts[2] = env.GOOGLE_CLIENT_SECRET

\* the endpoint went on to the checks that follow client authentication
PassedClientAuth ==
  last.resp.message \notin {"Invalid client identifier", "Invalid client authentication"}

\* C19: a token request that passes validation and fails client
\* authentication is answered invalid_client with HTTP 401, and the
\* provider is not called.
C19_ClientFailureIs401 ==
  (TokenValidated /\ ~(ClientIdMatches /\ (BodySecretMatches \/ BasicSecretMatches)))
    => /\ last.resp.error = "invalid_client"
       /\ last.resp.status = 401
       /\ last.trace = {}

TokenAny == last.ep = "token.POST"
TokenPayload ==
  /\ last.resp.kind = "json" /\ last.resp.status = 200
  /\ last.resp.result = "token" /\ last.resp.error = ""
TokenErrorBody ==
  /\ last.resp.kind = "json" /\ last.resp.status # 200
  /\ last.resp.error # "" /\ last.resp.message # "" /\ last.resp.result = ""

\* C21: every token request ends either in HTTP 200 with the token payload
\* or in a JSON body with error and error_description, also for a body
\* that does not parse, a missing configuration, a failed exchange and a
\* verification that throws; no exception leaves the handler.
C21_TokenEndsInPayloadOrError ==
  TokenAny => ((TokenPayload \/ TokenErrorBody) /\ ~(TokenPayload /\ TokenErrorBody))

C21_Witness ==
  /\ TokenAny
  /\ last.req.body.kind = "null"
  /\ TokenErrorBody
  /\ last.resp.error = "server_error"

(***************************************************************************)
(* Token requests and the provider's codes                                 *)
(***************************************************************************)
\* the steps of the token endpoint that come before the exchange, for the
\* body of a request in progress
FlightValidates(f) ==
  /\ f.body.grant_type = "authorization_code"
  /\ f.body.code # ""
  /\ f.body.redirect_uri # <<>>
FlightClientOk(f) ==
  /\ env.GOOGLE_CLIENT_ID # "" /\ env.GOOGLE_CLIENT_SECRET # ""
  /\ f.body.client_id = env.GOOGLE_CLIENT_ID
  /\ f.body.client_secret = env.GOOGLE_CLIENT_SECRET
FlightUriOk(f) == ~AllowListRejects(f.body.redirect_uri)
FlightPassesChecks(f) == FlightValidates(f) /\ FlightClientOk(f) /\ FlightUriOk(f)

\* the requests that carry the code c with otherwise valid parameters
Carriers(c) ==
  {i \in Flights : flights[i].pc # "idle" /\ flights[i].body.code = c
                   /\ FlightPassesChecks(flights[i])}
Granted(c) == {i \in Carriers(c) : flights[i].pc = "done" /\ flights[i].resp.status = 200}

\* C22: of the token requests that carry the same valid code with otherwise
\* valid parameters, in whatever order their steps are taken, at most one
\* is answered with the token payload and every other one with
\* invalid_grant; exactly one is granted once all have been answered,
\* unless identity verification failed for the request that redeemed the
\* code.
C22_ReplayedCodeIsGrantedOnce ==
  \A c \in ValidCodes :
    /\ Cardinality(Granted(c)) <= 1
    /\ \A i \in Carriers(c) \ Granted(c) :
         flights[i].pc = "done"
           => (flights[i].resp.status = 400 /\ flights[i].resp.error = "invalid_grant")
    /\ ( /\ Carriers(c) # {}
         /\ \A i \in Carriers(c) :
              flights[i].pc = "done" /\ flights[i].v.result \notin {"null", "throws"} )
         => Cardinality(Granted(c)) = 1

\* the statement without the condition on identity verification
C22_ExactlyOneIsGranted ==
  \A c \in ValidCodes :
    (Carriers(c) # {} /\ \A i \in Carriers(c) : flights[i].pc = "done")
      => Cardinality(Granted(c)) = 1

C22_Witness ==
  /\ Carriers("c1") = {1, 2}
  /\ flights[1].pc = "done" /\ flights[2].pc = "done"
  /\ flights[2].resp.status = 200
  /\ flights[1].resp.error = "invalid_grant"
  /\ flights[1].calls = 1

\* the error of the first step that the body of the request fails
FirstFailure(f) ==
  IF f.body.grant_type # "authorization_code" THEN "unsupported_grant_type"
  ELSE IF ~FlightValidates(f) THEN "invalid_request"
  ELSE IF env.GOOGLE_CLIENT_ID = "" \/ env.GOOGLE_CLIENT_SECRET = "" THEN "server_error"
  ELSE IF ~FlightClientOk(f) THEN "invalid_client"
  ELSE "invalid_request"

\* C27: a token request calls the provider's token endpoint at most once,
\* and only after validation, client authentication and the allow-list
\* check have passed, in that order; a request rejected at one of these
\* steps has made no call and has redeemed no code.
C27_ExchangeOnceAfterAllChecks ==
  /\ \A i \in Flights :
       LET f == flights[i]
       IN  f.pc # "idle"
             => /\ f.calls <= 1
                /\ (f.calls = 1 \/ f.pc \in {"exchange", "verify"}) => FlightPassesChecks(f)
                /\ (f.pc = "done" /\ ~FlightPassesChecks(f))
                     => /\ f.calls = 0 /\ ~f.redeemed
                        /\ f.resp.status = 400
                        /\ f.resp.error = FirstFailure(f)
  /\ upstream = {flights[i].body.code : i \in {j \in Flights : flights[j].redeemed}}

C27_Witness ==
  /\ flights[1].pc = "done"
  /\ flights[1].body.code = "c1"
  /\ flights[1].body.client_secret = "wrong"
  /\ flights[1].body.redirect_uri = <<"https://", "evil.example", "/cb">>
  /\ flights[1].resp.error = "invalid_client"
  /\ flights[1].calls = 0
  /\ flights[2].pc = "done" /\ flights[2].resp.status = 200
  /\ upstream = {"c1"}

(***************************************************************************)
(* The callback and its cookie                                             *)
(***************************************************************************)
CallbackAny == last.ep = "callback.GET"
\* the exchange succeeded and identity verification returned a subject
CallbackVerified ==
  /\ last.req.query.error = "" /\ last.req.query.code # ""
  /\ env.GOOGLE_CLIENT_ID # "" /\ env.GOOGLE_CLIENT_SECRET # ""
  /\ last.req.answers.x.success
  /\ last.req.answers.idn.ok /\ Has(last.req.answers.idn.userInfo, "sub")
CallbackErrorPage ==
  /\ last.resp.kind = "redirect"
  /\ last.resp.location.origin = "self"
  /\ last.resp.location.path = <<"/auth/error">>

\* C23: the callback sets the session cookie, HTTP-only, same-site and with
\* a max-age of 24 hours, only when the exchange succeeded and identity
\* verification returned a subject; every other outcome is a redirect to the
\* local /auth/error page without a cookie operation, and an upstream error
\* parameter, a missing code or missing client configuration end there
\* without a call to the provider.
C23_CookieOnlyOnSuccess ==
  CallbackAny =>
    /\ last.resp.cookieOp = "set"
         => /\ CallbackVerified
            /\ last.resp.httpOnly /\ last.resp.sameSite = "lax"
            /\ last.resp.maxAge = 24 * 60 * 60
            /\ last.resp.kind = "redirect" /\ ~CallbackErrorPage
    /\ last.resp.cookieOp # "set"
         => last.resp.cookieOp = "none" /\ CallbackErrorPage
    /\ ~CallbackVerified => CallbackErrorPage /\ last.resp.cookieOp = "none"
    /\ ( \/ last.req.query.error # "" \/ last.req.query.code = ""
         \/ env.GOOGLE_CLIENT_ID = "" \/ env.GOOGLE_CLIENT_SECRET = "" )
         => last.trace = {}

C23_Witness ==
  /\ CallbackAny /\ CallbackVerified
  /\ last.resp.cookieOp = "set" /\ last.resp.httpOnly
  /\ last.resp.location.path = <<"/auth/success">>

(***************************************************************************)
(* Detected expiry                                                         *)
(***************************************************************************)
\* a component found the credential of the request expired
ExpiryDetected ==
  \/ last.ep = "session.GET" /\ last.resp.message = "Session expired"
  \/ last.ep = "mcp.POST" /\ last.resp.message = "Unauthorized - Session expired"
  \/ /\ last.ep = "middleware" /\ last.resp.kind = "redirect"
     /\ last.resp.location.params.expired

\* C24: a response of the session-status endpoint, the page middleware or
\* the JSON-RPC authenticator that reports an expired credential deletes
\* the oauth_session cookie, as the response of a logout does.
C24_ExpiryDiscardsCookie ==
  ExpiryDetected => last.resp.cookieOp = LogoutPostResponse.cookieOp

(***************************************************************************)
(* Bearer token and expired cookie on tools/call                           *)
(***************************************************************************)
ToolsCall == last.ep = "mcp.POST" /\ last.req.body.json = "obj" /\ last.req.body.method = "tools/call"
BearerAccepted ==
  /\ Truthy(last.req.authorization)
  /\ BearerToken(last.req.authorization.value) # <<>>
  /\ last.req.verify.result = "user"

\* C25: a tools/call for a valid tool with a bearer token that the provider
\* accepts is executed and answered with a result envelope, whatever cookie
\* comes with it; a tools/call with an expired session cookie and no
\* Authorization header is answered with the unauthorized envelope and the
\* tool is not executed.
C25_BearerRunsExpiredCookieDoesNot ==
  ToolsCall =>
    /\ (BearerAccepted /\ last.req.body.params.name \in validTools)
         => /\ last.resp.status = 200 /\ last.resp.result # ""
            /\ "handleMCPTool" \in last.trace
    /\ (~last.req.authorization.present /\ ExpiredCookie)
         => /\ last.resp.status = 401 /\ last.resp.code = RPC_INTERNAL
            /\ "handleMCPTool" \notin last.trace
            /\ last.req.store = store

(***************************************************************************)
(* Redirect targets of the authorization endpoint                          *)
(***************************************************************************)
\* C26: a GET of the authorization endpoint is answered with a redirect to
\* the provider's authorize URL or with a JSON error body; it never
\* redirects to the redirect_uri of the request, which no path has checked
\* against the allow-list before an error is reported.
C26_NoRedirectToUnverifiedTarget ==
  AuthorizeOf
    => \/ last.resp.kind = "json" /\ last.resp.error # ""
       \/ last.resp.kind = "redirect" /\ last.resp.location.origin = "upstream"

(***************************************************************************)
(* The allow-list verdict of the two endpoints                             *)
(***************************************************************************)
\* the answer of the authorization endpoint to a request with the
\* redirect_uri `uri` that passes every check before the allow-list
AuthorizeAnswerFor(uri) ==
  AuthorizeGetResponse(env, [response_type |-> "code", client_id |-> env.GOOGLE_CLIENT_ID,
                             redirect_uri |-> uri, scope |-> "", state |-> "",
                             code_challenge |-> "", code_challenge_method |-> ""])
UriRefused(resp) ==
  resp.kind = "json" /\ resp.error = "invalid_request" /\ resp.message = "Invalid redirect_uri"

\* C29: for a token request that passes every check before the allow-list,
\* the token endpoint refuses the redirect_uri exactly when the
\* authorization endpoint refuses the same redirect_uri under the same
\* configuration.
C29_SameVerdictAtBothEndpoints ==
  (TokenOf /\ TokenEarlierChecksPass /\ last.req.body.redirect_uri # <<>>)
    => (UriRefused(last.resp) <=> UriRefused(AuthorizeAnswerFor(last.req.body.redirect_uri)))

(***************************************************************************)
(* Logout and copies of the credential                                     *)
(***************************************************************************)
LogoutOf == last.ep \in {"logout.POST", "logout.GET"}
\* a validator was handed a copy of the issued credential
CopyValidated ==
  /\ SessionStatusOf \/ McpBySession \/ MiddlewareGuarded
  /\ last.req.src.from = "copy"
  /\ last.req.cookie.enc = "b64"
\* the browser has obeyed a logout since the credential was issued: only
\* the responses of the logout endpoint delete the cookie of a browser that
\* holds an issued credential
LoggedOut == issued.cookie.enc = "b64" /\ jar = EmptyJar

\* a logout request, and the delivery of its response, leave the directory,
\* the configuration and the issued credential as they are
LogoutChangesNoServerState ==
  (LogoutOf \/ LogoutOf') => UNCHANGED <<env, store, issued, upstream, flights>>

\* once a logout was obeyed, a copy of the credential taken before it is
\* reported valid exactly up to and including the instant of its expiry
CopyOutlivesLogout ==
  (CopyValidated /\ LoggedOut)
    => /\ ReportedValid <=> last.at <= issued.at + SESSION_TTL
       /\ (ReportedValid /\ ~MiddlewareGuarded) => ReportedClaims = issued.claims

\* C28 as claimed: after a logout a copy of the credential is reported
\* valid at every instant before its expiry and invalid from the instant of
\* its expiry on.
C28_CopyValidStrictlyBeforeExpiry ==
  (CopyValidated /\ LoggedOut) => (ReportedValid <=> last.at < issued.at + SESSION_TTL)

\* C28 as amended: logout changes no state of the server, and a copy of a
\* credential taken before logout is reported valid by the session-status
\* endpoint, the JSON-RPC authenticator and the middleware after logout at
\* every instant up to and including its expiry, and invalid at every
\* later instant.
C28_LogoutIsClientSideOnly ==
  [][LogoutChangesNoServerState]_vars /\ []CopyOutlivesLogout

C28_Witness ==
  /\ CopyValidated /\ LoggedOut
  /\ McpBySession
  /\ last.req.body.method = "tools/call"
  /\ "handleMCPTool" \in last.trace
  /\ last.at < issued.at + SESSION_TTL

(***************************************************************************)
(* The destination of the callback                                         *)
(***************************************************************************)
\* C30: the redirect of the callback that sets the session cookie targets
\* the origin of the request, whatever the state parameter carries.
C30_SuccessRedirectStaysOnOrigin ==
  (CallbackAny /\ last.resp.cookieOp = "set")
    => /\ last.resp.kind = "redirect"
       /\ last.resp.location.origin = "self"

(***************************************************************************)
(* Access to the directory                                                 *)
(***************************************************************************)
\* the request ran a handler that reads or writes the directory
DirectoryAccessed == last.trace \cap {"handleMCPTool", "searchUsers"} # {}
\* an authentication check succeeded for the request
AuthenticationSucceeded ==
  /\ "authenticate" \in last.trace
  /\ last.req.user # NoUser

\* C31: a request that reads or writes the directory has passed an
\* authentication check; GET /api/people without a credential returns no
\* records.
C31_DirectoryNeedsAuthentication ==
  /\ DirectoryAccessed => AuthenticationSucceeded
  /\ (last.ep = "people.GET" /\ last.req.cookie.enc = "absent")
       => last.resp.result # "users"

(***************************************************************************)
(* Agreement of the session validators                                     *)
(***************************************************************************)
\* the verdict of each validator on the cookie c at the instant t
StatusAccepts(c, t) == SessionStatusResponse(c, t).authenticated
MiddlewareAccepts(c, t) == middleware(<<"/about">>, c, t).kind = "next"
RpcAccepts(c, t) == authenticateMCPRequest(NoHeader, NoVerify, c, t).authenticated

\* C32: whichever validator handled the request, its verdict on the cookie
\* is the verdict the session-status endpoint, the middleware on a
\* protected route and the JSON-RPC authenticator without an Authorization
\* header give on the same cookie at the same instant.
C32_ValidatorsAgree ==
  (SessionStatusOf \/ McpBySession \/ MiddlewareGuarded)
    => /\ ReportedValid <=> StatusAccepts(last.req.cookie, last.at)
       /\ ReportedValid <=> MiddlewareAccepts(last.req.cookie, last.at)
       /\ ReportedValid <=> RpcAccepts(last.req.cookie, last.at)

C32_Witness ==
  /\ MiddlewareGuarded
  /\ IssuedCookie
  /\ last.at = issued.at + SESSION_TTL
  /\ ReportedValid
  /\ RpcAccepts(last.req.cookie, last.at)
  /\ ~RpcAccepts(last.req.cookie, last.at + 1)

(***************************************************************************)
(* The middleware on protected routes                                      *)
(***************************************************************************)
MiddlewareToLogin ==
  /\ last.resp.kind = "redirect"
  /\ last.resp.location.origin = "self"
  /\ last.resp.location.path = <<"/auth/login">>
  /\ last.resp.location.params.returnUrl = last.req.pathname

\* C33: on a protected route the middleware forwards the request only when
\* the cookie decodes and is not expired; otherwise it redirects to
\* /auth/login with returnUrl set to the requested path, and the redirect
\* deletes the cookie when the cookie is undecodable or expired.
C33_ProtectedRouteNeedsLiveSession ==
  MiddlewareGuarded
    => /\ last.resp.kind = "next" => (Decodable /\ ~ExpiredCookie)
       /\ last.resp.kind # "next" => MiddlewareToLogin
       /\ (last.req.cookie.enc # "absent" /\ (~Decodable \/ ExpiredCookie))
            => (MiddlewareToLogin /\ last.resp.cookieOp = "delete")

(***************************************************************************)
(* Names of tools                                                          *)
(***************************************************************************)
FiveTools == {"search_users", "add_user", "update_user", "delete_user", "get_user_by_id"}
ToolsCallAuthenticated ==
  /\ ToolsCall
  /\ "authenticate" \in last.trace
  /\ last.req.user # NoUser

\* C34: an authenticated tools/call whose params.name is missing, is not a
\* string or is none of the five tools is answered with an error envelope
\* of code -32602 or -32601; handleMCPTool does not run and the directory
\* is unchanged.
C34_UnknownToolFailsClosed ==
  (ToolsCallAuthenticated /\ last.req.body.params.present
     /\ last.req.body.params.name \notin FiveTools)
    => /\ last.resp.kind = "json"
       /\ last.resp.code \in {-32602, -32601}
       /\ last.resp.result = ""
       /\ last.resp.code = -32601 <=> last.req.body.params.name \notin {"", NotAString}
       /\ McpNotExecuted

C34_Witness ==
  /\ ToolsCallAuthenticated
  /\ last.req.body.params.name = "drop_table"
  /\ last.resp.code = -32601
  /\ \E i \in PersonIds : store[i] # ABSENT

(***************************************************************************)
(* Failures of tools                                                       *)
(***************************************************************************)
\* the tool of the request cannot do its work: its arguments do not fit
\* the schema, or the record it names does not exist
ToolFails ==
  \/ ~last.req.body.params.valid
  \/ /\ last.req.body.params.name \in {"update_user", "delete_user", "get_user_by_id"}
     /\ last.req.store[last.req.body.params.id] = ABSENT

\* C35: an authenticated tools/call for one of the five tools that fails is
\* answered with an error envelope that carries a code, never with a
\* result envelope.
C35_ToolFailureIsErrorEnvelope ==
  (ToolsCallAuthenticated /\ last.req.body.params.present
     /\ last.req.body.params.name \in FiveTools /\ ToolFails)
    => /\ last.resp.code # 0
       /\ last.resp.result = ""

(***************************************************************************)
(* Independence of the outcome from earlier requests                       *)
(***************************************************************************)
\* requests, instants and answers of the provider on which the outcome of
\* each endpoint is observed
SampleCookies ==
  { NoCookie, RawCookie,
    Cookie("obj", [sub |-> "u9", email |-> "eve@x", name |-> "Eve"]),
    Cookie("obj", [sub |-> "u9", email |-> "eve@x", name |-> "Eve", exp |-> 0]),
    Cookie("obj", [sub |-> "u9", email |-> "eve@x", name |-> "Eve", exp |-> SESSION_TTL]) }
SampleTimes == {1, SESSION_TTL + 1}
SampleHeaders == {NoHeader, Header(<<"Bearer ", "tokA">>)}
SampleExchanges ==
  { [success |-> FALSE, tokens |-> NoTokens],
    [success |-> TRUE, tokens |-> [id_token |-> "idt", access_token |-> "at"]] }
SampleIdentities ==
  { [ok |-> FALSE, userInfo |-> <<>>],
    [ok |-> TRUE, userInfo |-> [sub |-> "u1", email |-> "ann@x", name |-> "Ann"]] }
SampleVerifications == {[result |-> "user", sub |-> "u1"], [result |-> "null", sub |-> ""]}
SampleQueries ==
  [response_type : {"code", "token"}, client_id : {"cid", "other"},
   redirect_uri : {<<"http://", "localhost", ":3000", CALLBACK_PATH>>,
                   <<"https://", "evil.example", "/cb">>},
   scope : {""}, state : {"s1"}, code_challenge : {""}, code_challenge_method : {""}]
SampleCallbacks ==
  [code : {"", "c1"}, state : {NoState}, error : {"", "access_denied"},
   error_description : {""}]

\* the outcome of every endpoint as a function of the request, the clock,
\* the answers of the provider and the configuration
StatusOutcomes == [c \in SampleCookies, t \in SampleTimes |-> SessionStatusResponse(c, t)]
RpcOutcomes ==
  [h \in SampleHeaders, v \in SampleVerifications, c \in SampleCookies, t \in SampleTimes |->
     LET a == authenticateMCPRequest(h, v, c, t)
     IN  <<a.authenticated, a.user, a.errorResponse>>]
CallbackOutcomes ==
  [e \in Envs, q \in SampleCallbacks, x \in SampleExchanges, idn \in SampleIdentities |->
     CallbackResult(e, q, x, idn, 1, 1).resp]
AuthorizeOutcomes == [e \in Envs, q \in SampleQueries |-> AuthorizeGetResponse(e, q)]
TokenOutcomes ==
  [e \in Envs, b \in ReplayBodies, x \in SampleExchanges, v \in SampleVerifications |->
     TokenPostResult(e, b, NoBasic, x, v).resp]
Outcomes ==
  <<StatusOutcomes, RpcOutcomes, CallbackOutcomes, AuthorizeOutcomes, TokenOutcomes>>

ProviderAssignedUrl(e) ==
  IF e.VERCEL_ENV = "production" /\ e.VERCEL_PROJECT_PRODUCTION_URL # <<>>
  THEN e.VERCEL_PROJECT_PRODUCTION_URL
  ELSE e.VERCEL_URL

\* the signal of highest precedence that a configuration sets, with its rank
DecidingSignal(e) ==
  IF e.PRODUCTION_URL # <<>> THEN <<1, e.PRODUCTION_URL>>
  ELSE IF e.NEXTAUTH_URL # <<>> THEN <<2, e.NEXTAUTH_URL>>
  ELSE IF ProviderAssignedUrl(e) # <<>> THEN <<3, ProviderAssignedUrl(e)>>
  ELSE IF e.NODE_ENV = "development" THEN <<4, <<e.HOST, e.PORT>>>>
  ELSE <<5, <<>>>>

EndsWithSlash(url) == url # <<>> /\ url[Len(url)] = "/"

\* C37: the value of getBaseUrl() is decided by the signal of highest
\* precedence that the configuration sets (PRODUCTION_URL, then NEXTAUTH_URL,
\* then the provider-assigned URL, then the local development address),
\* whatever the signals of lower precedence are, and it never ends with a
\* slash.
C37_BaseUrlByPrecedenceWithoutSlash ==
  last.ep = "getBaseUrl"
    => /\ \A e \in BaseUrlEnvs :
            DecidingSignal(e) = DecidingSignal(last.req.env)
              => getBaseUrl(e) = last.resp.value
       /\ ~EndsWithSlash(last.resp.value)

(***************************************************************************)
(* Properties of the stamps of the session                                 *)
(***************************************************************************)
\* C38: the session that the callback sets in the cookie has
\* exp - iat = 86400 exactly, both stamps being taken from one instant, also
\* when the clock advances while the callback builds the session.
C38_ExpiryIsIssueTimePlusTtl ==
  CallbackAny /\ last.resp.cookieOp = "set"
    => last.resp.cookie.obj.exp - last.resp.cookie.obj.iat = SESSION_TTL

====
